---- MODULE Spec2Model ----
(***************************************************************************)
(* Model of the DeepChat plugin (src/chat.py): the streaming reply         *)
(* assembler, its watchdog, the retry-wrapped dispatcher, the part of the  *)
(* controller that starts and cancels requests, and the controller's       *)
(* history, labels and session files.                                      *)
(*                                                                         *)
(* Wire text is a sequence of symbols.  Every symbol is one byte of the    *)
(* response, except that a quoted JSON string literal and the literal      *)
(* null are carried as one symbol each; chunk boundaries fall between      *)
(* symbols.  The reply is the sequence of the non-empty string values      *)
(* appended to it (one symbol per value), followed possibly by HangNotice. *)
(***************************************************************************)
EXTENDS Integers, Sequences, FiniteSets, TLC

(***************************************************************************)
(* Symbols                                                                 *)
(***************************************************************************)
NL == "\n"
SP == " "
LB == "{"
RB == "}"
LK == "["
RK == "]"
COLON == ":"
COMMA == ","
NULL == "null"
NUM == "7"

K_choices == "\"choices\""
K_delta == "\"delta\""
K_message == "\"message\""
K_content == "\"content\""
K_text == "\"text\""
K_completion == "\"completion\""
K_response == "\"response\""
K_error == "\"error\""
S_empty == "\"\""
S_a == "\"a\""
S_b == "\"b\""
S_c == "\"c\""
\* one value for each field content extraction looks at
V_delta == "\"D\""
V_message == "\"M\""
V_choice == "\"C\""
V_text == "\"t\""
V_content == "\"n\""
V_completion == "\"p\""
V_response == "\"r\""

\* keys of a session file and of a message of its history, and the quote
\* that delimits a string of a session file
K_role == "\"role\""
K_id == "\"id\""
K_label == "\"label\""
K_created_at == "\"created_at\""
K_updated_at == "\"updated_at\""
K_history == "\"history\""
K_added_files == "\"added_files\""
\* the path of a file the user attaches, as a key of 'added_files'
K_path == "\"f.py\""
QUOTE == "\""

\* the tags of a tool call and the words of its command line
OPEN == "<toolfunction_call>"
CLOSE == "</toolfunction_call>"
AT_COMMAND == "@command"

\* a reply that calls an unknown tool and then the tool "run"
CallsText ==
  <<OPEN, AT_COMMAND, COLON, "nope", CLOSE,
    OPEN, AT_COMMAND, COLON, "run", CLOSE>>
\* the string literal whose text is CallsText
S_calls == "\"<calls>\""

\* every quoted string literal that occurs on the wire
StringLits ==
  {K_choices, K_delta, K_message, K_content, K_text, K_completion,
   K_response, K_error, S_empty, S_a, S_b, S_c, V_delta, V_message,
   V_choice, V_text, V_content, V_completion, V_response, K_role, K_id,
   K_label, K_created_at, K_updated_at, K_history, K_added_files, K_path,
   S_calls}

\* the text a string literal denotes, as reply symbols
TextOf(lit) ==
  IF lit = S_empty THEN <<>>
  ELSE IF lit = S_calls THEN CallsText
  ELSE <<lit>>

\* bytes.strip() / str.strip() whitespace
Whitespace == {SP, NL, "\r", "\t"}

\* the SSE prefix 'data: ' and the sentinel line 'data: [DONE]'
DataPrefix == <<"d", "a", "t", "a", COLON, SP>>
DoneLine == DataPrefix \o <<LK, "D", "O", "N", "E", RK>>

HangNotice == "[Response incomplete - stream timed out]"

(***************************************************************************)
(* Sequence helpers                                                        *)
(***************************************************************************)
IsPrefix(s, t) == Len(s) <= Len(t) /\ SubSeq(t, 1, Len(s)) = s

StartsWith(s, p) == IsPrefix(p, s)

Drop(s, n) == SubSeq(s, n + 1, Len(s))

RECURSIVE LStrip(_)
LStrip(s) ==
  IF s # <<>> /\ Head(s) \in Whitespace THEN LStrip(Tail(s)) ELSE s

RECURSIVE RStrip(_)
RStrip(s) ==
  IF s # <<>> /\ s[Len(s)] \in Whitespace
  THEN RStrip(SubSeq(s, 1, Len(s) - 1))
  ELSE s

Strip(s) == RStrip(LStrip(s))

\* index of the first NL in s, 0 when there is none
RECURSIVE FirstNL(_, _)
FirstNL(s, i) ==
  IF i > Len(s) THEN 0 ELSE IF s[i] = NL THEN i ELSE FirstNL(s, i + 1)

\* bytes.split(b'\n'): k newlines give k + 1 segments
RECURSIVE SplitLines(_)
SplitLines(s) ==
  LET n == FirstNL(s, 1) IN
  IF n = 0 THEN <<s>>
  ELSE <<SubSeq(s, 1, n - 1)>> \o SplitLines(Drop(s, n))

\* index of the first occurrence of m in s at or after i, 0 when absent
RECURSIVE FindSub(_, _, _)
FindSub(s, m, i) ==
  IF i + Len(m) - 1 > Len(s) THEN 0
  ELSE IF SubSeq(s, i, i + Len(m) - 1) = m THEN i
  ELSE FindSub(s, m, i + 1)

\* str.replace(m, '', 1)
RemoveFirst(s, m) ==
  LET i == FindSub(s, m, 1) IN
  IF m = <<>> \/ i = 0 THEN s
  ELSE SubSeq(s, 1, i - 1) \o Drop(s, i + Len(m) - 1)

(***************************************************************************)
(* json.loads over symbols                                                 *)
(***************************************************************************)
JNull == [t |-> "null"]
JStr(lit) == [t |-> "str", lit |-> lit]
\* an integer, and a string given by its symbols between two quotes
JInt(n) == [t |-> "num", n |-> n]
JText(txt) == [t |-> "text", s |-> txt]
JArr(e) == [t |-> "arr", e |-> e]
JObj(m) == [t |-> "obj", m |-> m]

NoMembers == [k \in {} |-> JNull]

ParseFail == [ok |-> FALSE, v |-> JNull, i |-> 0]

RECURSIVE SkipWs(_, _)
SkipWs(s, i) ==
  IF i <= Len(s) /\ s[i] \in Whitespace THEN SkipWs(s, i + 1) ELSE i

\* the decimal digits; NUM is one of them
Digits == <<"0", "1", "2", "3", "4", "5", "6", "7", "8", "9">>
DigitSet == {Digits[i] : i \in 1..10}
DigitValue(ch) == (CHOOSE i \in 1..10 : Digits[i] = ch) - 1

\* a natural number as json.dump writes it
RECURSIVE DumpInt(_)
DumpInt(n) ==
  IF n < 10 THEN <<Digits[n + 1]>>
  ELSE DumpInt(n \div 10) \o <<Digits[(n % 10) + 1]>>

\* the run of digits of s from index i on, read with acc before it:
\* [n = its value, i = index after it]
RECURSIVE ParseDigits(_, _, _)
ParseDigits(s, i, acc) ==
  IF i <= Len(s) /\ s[i] \in DigitSet
  THEN ParseDigits(s, i + 1, 10 * acc + DigitValue(s[i]))
  ELSE [n |-> acc, i |-> i]

\* index of the first QUOTE of s at or after i, 0 when there is none
RECURSIVE FindQuote(_, _)
FindQuote(s, i) ==
  IF i > Len(s) THEN 0
  ELSE IF s[i] = QUOTE THEN i ELSE FindQuote(s, i + 1)

RECURSIVE ParseValue(_, _)
RECURSIVE ParseMembers(_, _, _)
RECURSIVE ParseElements(_, _, _)

\* one JSON value starting at or after index i: [ok, v, i = index after it]
ParseValue(s, i) ==
  LET j == SkipWs(s, i) IN
  IF j > Len(s) THEN ParseFail
  ELSE IF s[j] \in StringLits THEN [ok |-> TRUE, v |-> JStr(s[j]), i |-> j + 1]
  ELSE IF s[j] = NULL THEN [ok |-> TRUE, v |-> JNull, i |-> j + 1]
  ELSE IF s[j] \in DigitSet THEN
    LET r == ParseDigits(s, j, 0) IN
    [ok |-> TRUE, v |-> JInt(r.n), i |-> r.i]
  ELSE IF s[j] = QUOTE THEN
    LET k == FindQuote(s, j + 1) IN
    IF k = 0 THEN ParseFail
    ELSE [ok |-> TRUE, v |-> JText(SubSeq(s, j + 1, k - 1)), i |-> k + 1]
  ELSE IF s[j] = LB THEN
    LET k == SkipWs(s, j + 1) IN
    IF k <= Len(s) /\ s[k] = RB
    THEN [ok |-> TRUE, v |-> JObj(NoMembers), i |-> k + 1]
    ELSE ParseMembers(s, k, NoMembers)
  ELSE IF s[j] = LK THEN
    LET k == SkipWs(s, j + 1) IN
    IF k <= Len(s) /\ s[k] = RK
    THEN [ok |-> TRUE, v |-> JArr(<<>>), i |-> k + 1]
    ELSE ParseElements(s, k, <<>>)
  ELSE ParseFail

\* members of an object from index i (first key) on; a repeated key keeps
\* its last value
ParseMembers(s, i, acc) ==
  LET j == SkipWs(s, i) IN
  IF j > Len(s) \/ s[j] \notin StringLits THEN ParseFail
  ELSE
    LET c == SkipWs(s, j + 1) IN
    IF c > Len(s) \/ s[c] # COLON THEN ParseFail
    ELSE
      LET r == ParseValue(s, c + 1) IN
      IF ~r.ok THEN ParseFail
      ELSE
        LET n == SkipWs(s, r.i)
            m == (s[j] :> r.v) @@ acc
        IN
        IF n > Len(s) THEN ParseFail
        ELSE IF s[n] = RB THEN [ok |-> TRUE, v |-> JObj(m), i |-> n + 1]
        ELSE IF s[n] = COMMA THEN ParseMembers(s, n + 1, m)
        ELSE ParseFail

ParseElements(s, i, acc) ==
  LET r == ParseValue(s, i) IN
  IF ~r.ok THEN ParseFail
  ELSE
    LET n == SkipWs(s, r.i)
        e == Append(acc, r.v)
    IN
    IF n > Len(s) THEN ParseFail
    ELSE IF s[n] = RK THEN [ok |-> TRUE, v |-> JArr(e), i |-> n + 1]
    ELSE IF s[n] = COMMA THEN ParseElements(s, n + 1, e)
    ELSE ParseFail

\* json.loads(s): [ok = FALSE] stands for ValueError
JsonLoads(s) ==
  LET r == ParseValue(s, 1) IN
  IF r.ok /\ SkipWs(s, r.i) > Len(s) THEN r ELSE ParseFail

(***************************************************************************)
(* Content extraction (_extract_content)                                   *)
(***************************************************************************)
\* outcome of one extraction: text appended to reply, nothing, or an
\* exception other than ValueError (TypeError, KeyError, AttributeError)
Added(txt) == [kind |-> "add", add |-> txt]
Nothing == [kind |-> "none", add |-> <<>>]
Raised == [kind |-> "raise", add |-> <<>>]

\* Python truthiness of a decoded value
Truthy(v) ==
  CASE v.t = "null" -> FALSE
    [] v.t = "num" -> TRUE
    [] v.t = "str" -> v.lit # S_empty
    [] v.t = "text" -> v.s # <<>>
    [] v.t = "arr" -> v.e # <<>>
    [] v.t = "obj" -> DOMAIN v.m # {}

\* `k in v` followed by a keyed access to v: "T" / "F", or "E" when the
\* test or the access that follows a true test raises (v is not a dict)
KeyIn(k, v) ==
  CASE v.t = "obj" -> IF k \in DOMAIN v.m THEN "T" ELSE "F"
    [] v.t = "arr" ->
         IF \E i \in 1..Len(v.e) : v.e[i] = JStr(k) THEN "E" ELSE "F"
    [] v.t = "str" -> IF v.lit = k THEN "E" ELSE "F"
    [] OTHER -> "E"

\* `k in c and c[k] is not None` then `reply += c[k]`;
\* "none" when the condition is false
Leaf(c, k) ==
  LET has == KeyIn(k, c) IN
  IF has = "E" THEN Raised
  ELSE IF has = "F" THEN Nothing
  ELSE IF c.m[k].t = "null" THEN Nothing
  ELSE IF c.m[k].t = "str" THEN Added(TextOf(c.m[k].lit))
  ELSE Raised

\* the branch on choices[0]: delta, else message, else text
ExtractChoice(choice) ==
  LET d == KeyIn(K_delta, choice) IN
  IF d = "E" THEN Raised
  ELSE IF d = "T" THEN Leaf(choice.m[K_delta], K_content)
  ELSE
    LET m == KeyIn(K_message, choice) IN
    IF m = "E" THEN Raised
    ELSE IF m = "T" THEN Leaf(choice.m[K_message], K_content)
    ELSE Leaf(choice, K_text)

\* the branch taken when 'choices' is a key of data
ExtractChoices(choices) ==
  IF ~Truthy(choices) THEN Nothing
  ELSE
    CASE choices.t = "arr" -> ExtractChoice(choices.e[1])
      [] choices.t = "str" -> Nothing
      [] OTHER -> Raised

\* the elif chain over the top-level keys, from position i of ks on
RECURSIVE ExtractTop(_, _, _)
ExtractTop(data, ks, i) ==
  IF i > Len(ks) THEN Nothing
  ELSE
    LET r == Leaf(data, ks[i]) IN
    IF r.kind = "none" THEN ExtractTop(data, ks, i + 1) ELSE r

TopKeys == <<K_text, K_content, K_completion, K_response>>

\* extraction that goes on to the top-level keys when 'choices' gives nothing
ExtractContentFallThrough(data) ==
  LET c == KeyIn(K_choices, data) IN
  IF c = "E" THEN Raised
  ELSE IF c = "T" /\ ExtractChoices(data.m[K_choices]).kind # "none"
  THEN ExtractChoices(data.m[K_choices])
  ELSE ExtractTop(data, TopKeys, 1)

ExtractContent(data) ==
  LET c == KeyIn(K_choices, data) IN
  IF c = "E" THEN Raised
  ELSE IF c = "T" THEN ExtractChoices(data.m[K_choices])
  ELSE ExtractTop(data, TopKeys, 1)

(***************************************************************************)
(* The assembler: _process_buffer, _process_line, _handle_json_content,    *)
(* _process_partial_json.  They act on the fields reply, parse_buffer and  *)
(* partial_json, carried here as a record; exc tells that an exception     *)
(* left the function.                                                      *)
(***************************************************************************)
StreamState(r, pb, pj) ==
  [reply |-> r, parse_buffer |-> pb, partial_json |-> pj, exc |-> FALSE]

\* nesting the pattern of _process_partial_json accepts: an object with up
\* to two further levels of objects inside it
MaxBraceDepth == 3

\* end index of the match of the balanced-brace pattern that starts at the
\* "{" before index j, where depth braces are open; 0 when there is none
RECURSIVE MatchEnd(_, _, _)
MatchEnd(s, j, depth) ==
  IF j > Len(s) THEN 0
  ELSE IF s[j] = LB THEN
    IF depth + 1 > MaxBraceDepth THEN 0 ELSE MatchEnd(s, j + 1, depth + 1)
  ELSE IF s[j] = RB THEN
    IF depth = 1 THEN j ELSE MatchEnd(s, j + 1, depth - 1)
  ELSE MatchEnd(s, j + 1, depth)

\* re.findall(pattern, s): the non-overlapping matches, leftmost first
RECURSIVE FindAll(_, _)
FindAll(s, i) ==
  IF i > Len(s) THEN <<>>
  ELSE IF s[i] # LB THEN FindAll(s, i + 1)
  ELSE
    LET e == MatchEnd(s, i + 1, 1) IN
    IF e = 0 THEN FindAll(s, i + 1)
    ELSE <<SubSeq(s, i, e)>> \o FindAll(s, e + 1)

\* the loop of _process_partial_json over matches[i..]
RECURSIVE PartialLoop(_, _, _)
PartialLoop(st, matches, i) ==
  IF i > Len(matches) THEN st
  ELSE
    LET r == JsonLoads(matches[i]) IN
    IF ~r.ok THEN PartialLoop(st, matches, i + 1)
    ELSE
      LET x == ExtractContent(r.v) IN
      IF x.kind = "raise" THEN [st EXCEPT !.exc = TRUE]
      ELSE PartialLoop(
             [st EXCEPT !.reply = @ \o x.add,
                        !.partial_json = RemoveFirst(@, matches[i])],
             matches, i + 1)

ProcessPartialJson(st) ==
  IF st.partial_json = <<>> THEN st
  ELSE PartialLoop(st, FindAll(st.partial_json, 1), 1)

\* a handler that drops a payload json.loads rejects
HandleJsonContentDiscard(st, json_str) ==
  LET r == JsonLoads(json_str) IN
  IF r.ok THEN
    LET x == ExtractContent(r.v) IN
    IF x.kind = "raise" THEN [st EXCEPT !.exc = TRUE]
    ELSE [st EXCEPT !.reply = @ \o x.add]
  ELSE st

HandleJsonContent(st, json_str) ==
  LET r == JsonLoads(json_str) IN
  IF r.ok THEN
    LET x == ExtractContent(r.v) IN
    IF x.kind = "raise" THEN [st EXCEPT !.exc = TRUE]
    ELSE [st EXCEPT !.reply = @ \o x.add]
  ELSE ProcessPartialJson([st EXCEPT !.partial_json = @ \o json_str])

\* a _process_line without the test for the [DONE] sentinel
ProcessLineNoDone(st, line) ==
  LET line_str == Strip(line) IN
  IF line_str = <<>> THEN st
  ELSE IF StartsWith(line_str, DataPrefix) THEN
    [HandleJsonContent(st, Drop(line_str, Len(DataPrefix)))
       EXCEPT !.exc = FALSE]
  ELSE IF StartsWith(line_str, <<LB>>) THEN
    [HandleJsonContent(st, line_str) EXCEPT !.exc = FALSE]
  ELSE st

\* _process_line catches every exception: exc is cleared on the way out
ProcessLine(st, line) ==
  LET line_str == Strip(line) IN
  IF line_str = <<>> THEN st
  ELSE IF StartsWith(line_str, DataPrefix) THEN
    IF line_str = DoneLine THEN st
    ELSE [HandleJsonContent(st, Drop(line_str, Len(DataPrefix)))
            EXCEPT !.exc = FALSE]
  ELSE IF StartsWith(line_str, <<LB>>) THEN
    [HandleJsonContent(st, line_str) EXCEPT !.exc = FALSE]
  ELSE st

RECURSIVE ProcessLines(_, _, _)
ProcessLines(st, lines, i) ==
  IF i > Len(lines) THEN st
  ELSE ProcessLines(ProcessLine(st, lines[i]), lines, i + 1)

\* a _process_buffer that does not keep the unfinished last segment
ProcessBufferNoCarry(st, final) ==
  IF st.parse_buffer # <<>> THEN
    ProcessLines([st EXCEPT !.parse_buffer = <<>>],
                 SplitLines(st.parse_buffer), 1)
  ELSE st

ProcessBuffer(st, final) ==
  IF FirstNL(st.parse_buffer, 1) # 0 THEN
    LET lines == SplitLines(st.parse_buffer) IN
    ProcessLines([st EXCEPT !.parse_buffer = lines[Len(lines)]],
                 SubSeq(lines, 1, Len(lines) - 1), 1)
  ELSE IF final /\ st.parse_buffer # <<>> THEN
    [ProcessLine(st, st.parse_buffer) EXCEPT !.parse_buffer = <<>>]
  ELSE st

\* a loop body that assigns the chunk instead of appending it
FeedChunkAssign(st, chunk) ==
  ProcessBuffer([st EXCEPT !.parse_buffer = chunk], FALSE)

\* one iteration of the read loop after a non-empty read
FeedChunk(st, chunk) ==
  ProcessBuffer([st EXCEPT !.parse_buffer = @ \o chunk], FALSE)

\* the iteration that reads no data, and the first line of finalization
EndOfStream(st) == ProcessPartialJson(ProcessBuffer(st, TRUE))

(***************************************************************************)
(* Tool calls (parse_function_calls, execute_function_call)                *)
(*                                                                         *)
(* Reply text that carries tool calls is a sequence of symbols in which    *)
(* each tag, each multi-line marker, '@command' and each word is one       *)
(* symbol; NL, SP and COLON are the characters they name.                  *)
(***************************************************************************)
ML_OPEN == "<<<||"
ML_CLOSE == "||>>>"

\* '\n'.join(lines)
RECURSIVE Join(_)
Join(lines) ==
  IF lines = <<>> THEN <<>>
  ELSE IF Len(lines) = 1 THEN lines[1]
  ELSE lines[1] \o <<NL>> \o Join(Tail(lines))

\* the two loops of _parse_kv_format that pop empty lines from the ends of
\* multiline_content, in a variant that pops at most one line from each end
StripOneBlankLine(content) ==
  LET a == IF content # <<>> /\ Head(content) = <<>> THEN Tail(content)
           ELSE content
  IN IF a # <<>> /\ a[Len(a)] = <<>> THEN SubSeq(a, 1, Len(a) - 1) ELSE a

\* `while multiline_content and not multiline_content[0]: pop(0)` and
\* `while multiline_content and not multiline_content[-1]: pop()`
RECURSIVE StripBlankLines(_)
StripBlankLines(content) ==
  IF content # <<>> /\ Head(content) = <<>>
  THEN StripBlankLines(Tail(content))
  ELSE IF content # <<>> /\ content[Len(content)] = <<>>
  THEN StripBlankLines(SubSeq(content, 1, Len(content) - 1))
  ELSE content

\* current_key = None (an empty key is as falsy as None)
NoKey == <<>>
NoArgs == <<>>

\* result['command'] = value
SetCommand(result, value) == [command |-> value, args |-> result.args]

\* result['args'][key] = value
SetArg(result, key, value) ==
  IF "command" \in DOMAIN result
  THEN [command |-> result.command, args |-> (key :> value) @@ result.args]
  ELSE [args |-> (key :> value) @@ result.args]

\* index of the first COLON in line, 0 when there is none
ColonAt(line) == FindSub(line, <<COLON>>, 1)

\* the body of the `for line in lines` loop of _parse_kv_format on the
\* loop state k = [result, current_key, multiline_content, in_multiline]
KvLine(k, line) ==
  IF line = <<>>
  THEN IF k.in_multiline
       THEN [k EXCEPT !.multiline_content = Append(@, <<>>)]
       ELSE k
  ELSE IF line = <<ML_OPEN>>
  THEN [k EXCEPT !.in_multiline = TRUE, !.multiline_content = <<>>]
  ELSE IF line = <<ML_CLOSE>>
  THEN LET content == Join(StripBlankLines(k.multiline_content))
           result ==
             IF k.current_key # NoKey /\ k.in_multiline
             THEN IF k.current_key = <<AT_COMMAND>>
                  THEN SetCommand(k.result, content)
                  ELSE SetArg(k.result, k.current_key, content)
             ELSE k.result
       IN [k EXCEPT !.result = result, !.in_multiline = FALSE,
                    !.current_key = NoKey]
  ELSE IF k.in_multiline
  THEN [k EXCEPT !.multiline_content = Append(@, line)]
  ELSE IF ColonAt(line) # 0
  THEN LET key == Strip(SubSeq(line, 1, ColonAt(line) - 1))
           value == Strip(Drop(line, ColonAt(line)))
       IN IF key = <<AT_COMMAND>>
          THEN [k EXCEPT !.result = SetCommand(@, value)]
          ELSE IF value = <<ML_OPEN>>
          THEN [k EXCEPT !.current_key = key, !.in_multiline = TRUE,
                         !.multiline_content = <<>>]
          ELSE [k EXCEPT !.result = SetArg(@, key, value)]
  ELSE k

RECURSIVE KvLines(_, _, _)
KvLines(k, lines, i) ==
  IF i > Len(lines) THEN k ELSE KvLines(KvLine(k, lines[i]), lines, i + 1)

\* _parse_kv_format(text)
ParseKvFormat(text) ==
  KvLines([result |-> [args |-> NoArgs], current_key |-> NoKey,
           multiline_content |-> <<>>, in_multiline |-> FALSE],
          SplitLines(text), 1).result

\* re.findall(r'<toolfunction_call>(.*?)</toolfunction_call>', text,
\* re.DOTALL) from index i on
RECURSIVE FindCalls(_, _)
FindCalls(text, i) ==
  LET o == FindSub(text, <<OPEN>>, i)
      c == IF o = 0 THEN 0 ELSE FindSub(text, <<CLOSE>>, o + 1)
  IN IF c = 0 THEN <<>>
     ELSE <<SubSeq(text, o + 1, c - 1)>> \o FindCalls(text, c + 1)

\* parse_function_calls(text): _parse_kv_format raises on no text, so each
\* match gives a record
RECURSIVE ParseMatches(_, _)
ParseMatches(matches, i) ==
  IF i > Len(matches) THEN <<>>
  ELSE <<ParseKvFormat(Strip(matches[i]))>> \o ParseMatches(matches, i + 1)

parse_function_calls(text) == ParseMatches(FindCalls(text, 1), 1)

\* self.available_functions: the tools discover_functions found; "run"
\* returns a value that is not a dict, "boom" raises an exception
available_functions == {<<"run">>, <<"boom">>}

\* call_data.get('command')
FuncName(call_data) ==
  IF "command" \in DOMAIN call_data THEN call_data.command ELSE <<"None">>

\* execute_function_call in a variant whose except clause is missing: the
\* exception of the tool leaves the function (no result)
ExecuteFunctionCallUncaught(call_data) ==
  IF FuncName(call_data) \notin available_functions
  THEN [success |-> FALSE,
        error |-> <<"Unknown function: ">> \o FuncName(call_data)]
  ELSE IF FuncName(call_data) = <<"boom">>
  THEN [raised |-> TRUE]
  ELSE [success |-> TRUE, result |-> <<"ok">>]

\* execute_function_call(call_data)
execute_function_call(call_data) ==
  IF FuncName(call_data) \notin available_functions
  THEN [success |-> FALSE,
        error |-> <<"Unknown function: ">> \o FuncName(call_data)]
  ELSE IF FuncName(call_data) = <<"boom">>
  THEN [success |-> FALSE, error |-> <<"boom failed">>,
        command |-> FuncName(call_data)]
  ELSE [success |-> TRUE, result |-> <<"ok">>]

\* the loop of process_response_with_functions: an exception that leaves
\* execute_function_call ends the loop and the function
RECURSIVE ExecuteAll(_, _)
ExecuteAll(function_calls, i) ==
  IF i > Len(function_calls) THEN <<>>
  ELSE LET result == execute_function_call(function_calls[i]) IN
       IF "raised" \in DOMAIN result THEN <<result>>
       ELSE <<result>> \o ExecuteAll(function_calls, i + 1)

\* process_response_with_functions(response_text): <<>> stands for None
process_response_with_functions(response_text) ==
  ExecuteAll(parse_function_calls(response_text), 1)

\* index of the last occurrence of m in s, 0 when absent
RECURSIVE FindLast(_, _, _)
FindLast(s, m, i) ==
  IF i < 1 THEN 0
  ELSE IF i + Len(m) - 1 <= Len(s) /\ SubSeq(s, i, i + Len(m) - 1) = m
  THEN i
  ELSE FindLast(s, m, i - 1)

ELLIPSIS == "..."

\* re.sub(r'<toolfunction_call>(.{0,150}).*?</toolfunction_call>',
\*        r'<toolfunction_call>\1...</toolfunction_call>', reply,
\*        flags=re.DOTALL).strip()
\* for a reply shorter than the 150 characters of the greedy group: the
\* group runs to the last closing tag after the first opening tag
CleanReply(text) ==
  LET o == FindSub(text, <<OPEN>>, 1)
      c == IF o = 0 THEN 0 ELSE FindLast(text, <<CLOSE>>, Len(text))
  IN Strip(IF c <= o THEN text
           ELSE SubSeq(text, 1, c - 1) \o <<ELLIPSIS>> \o Drop(text, c - 1))

\* one entry of json.dumps(function_results, indent=2)
ResultText(result) ==
  IF result.success THEN <<"ok:">> \o result.result
  ELSE <<"error:">> \o result.error

RECURSIVE ResultsBody(_, _)
ResultsBody(function_results, i) ==
  IF i > Len(function_results) THEN <<>>
  ELSE ResultText(function_results[i])
         \o ResultsBody(function_results, i + 1)

\* "\n\nFunction execution results:\n{}".format(json.dumps(...))
ResultsText(function_results) ==
  <<NL, NL, "Function execution results:", NL>>
    \o ResultsBody(function_results, 1)

\* an exception left process_response_with_functions
Raises(function_results) ==
  /\ function_results # <<>>
  /\ "raised" \in DOMAIN function_results[Len(function_results)]

\* the calls execute_function_call was given, had the loop of
\* process_response_with_functions run twice over them
ExecutedTwice(response_text, function_results) ==
  parse_function_calls(response_text) \o parse_function_calls(response_text)

\* the calls of response_text that execute_function_call was given
Executed(response_text, function_results) ==
  SubSeq(parse_function_calls(response_text), 1, Len(function_results))

\* `if function_results: self.history.append({'role': 'system', ...})`
AttachResults(h, function_results) ==
  IF function_results # <<>>
  THEN Append(h, [role |-> "system",
                  content |-> ResultsText(function_results),
                  id |-> 0, label |-> "-"])
  ELSE h

(***************************************************************************)
(* Bounds and program constants                                            *)
(***************************************************************************)
\* send_message_with_retry(self, max_retries=3)
MaxRetries == 3
\* wait_time = (attempt + 1) * 2
BackoffUnit == 2
\* _stream_watchdog: elapsed > 15
HangThreshold == 15

\* messages the user sends in one run
MaxRequests == 1
\* seconds by which the clock advances in one step
TickStep == 8

(***************************************************************************)
(* Responses of the server                                                 *)
(***************************************************************************)
DeltaFrame(c) ==
  DataPrefix \o <<LB, K_choices, COLON, LK, LB, K_delta, COLON, LB,
                  K_content, COLON, c, RB, RB, RK, RB, NL>>

\* a frame of the delta shape without its line end
BareDeltaFrame(c) == SubSeq(DeltaFrame(c), 1, Len(DeltaFrame(c)) - 1)

\* a successful response carrying an application-level error document
ErrorPayload == <<LB, K_error, COLON, S_a, RB, NL>>

\* bodies of streaming responses, each as the chunks the reads return; the
\* first read of the token stream ends inside the second frame's line
Responses ==
  { <<DeltaFrame(S_a) \o BareDeltaFrame(S_b),
      <<NL>> \o DoneLine \o <<NL>> >>,
    <<ErrorPayload>>,
    <<DeltaFrame(S_calls)>> }

\* what send_message_with_retry finds in the settings for the selected
\* model: a usable entry, no entry, an entry without 'api_key', an entry
\* without 'url'
Configs == {"ok", "no_model", "no_key", "no_url"}

\* exceptions the request functions raise that _send_message_thread names
FailureKinds == {"URLError", "socket.error", "HTTPError"}

(***************************************************************************)
(* State                                                                   *)
(***************************************************************************)
VARIABLES
  reply,                     \* self.reply
  parse_buffer,              \* self.parse_buffer
  partial_json,              \* self.partial_json
  stopping,                  \* self.stopping
  response_complete,         \* self.response_complete
  response_watchdog_active,  \* self.response_watchdog_active
  idle,                      \* time.time() - self.last_update_time, capped
  history,                   \* self.history
  message_id,                \* self.message_id
  pc,                        \* where the request worker thread is
  attempt,                   \* loop variable of _send_message_thread
  body,                      \* chunks the open response has still to deliver
  wdTest,                    \* watchdog threads at their while test
  wdSleep,                   \* watchdog threads in time.sleep(1)
  pendingHang,               \* _handle_hang callbacks scheduled, not yet run
  mainPc,                    \* where the main thread is
  hangLocal,                 \* value of self.reply loaded by _handle_hang
  sleeps,                    \* wait times of the time.sleep calls of the request
  lastFail,                  \* exception the except clause is handling
  terminals,                 \* "Connection failed" messages of the request
  returned,                  \* the attempt that returned normally, 0 if none
  requests,                  \* messages sent so far
  stream,                    \* model_config['stream'] of the request
  finalized,                 \* who appended a reply to history, in order
  lateChunks,                \* chunks incorporated while stopping was set
  stopInRead,                \* a read was in progress when stopping was set
  script,                    \* assembler runs: the lines of the response
  rest,                      \* assembler runs: the text not yet read
  cutInLine,                 \* assembler runs: a read ended inside a line
  data,                      \* extraction runs: the decoded object
  labels,                    \* self.labels
  current_session_id,        \* self.current_session_id
  added_files,               \* self.added_files (the paths)
  auto_resume_attempted,     \* self.auto_resume_attempted
  files,                     \* the session files of each sessions directory
  last_session_id,           \* the setting 'last_session_id'
  system_message,            \* what get_system_message() returns now
  folders,                   \* the window has a project folder
  knowledge,                 \* a knowledge.md file exists
  now,                       \* datetime.now()
  ops,                       \* the number of commands given so far
  executed,                  \* the tool calls executed for the request
  displayed,                 \* the replies given to display_response
  previous_reply_length,     \* self.previous_reply_length
  timer_running,             \* self.timer_running
  polls,                     \* update_view callbacks scheduled, not yet run
  finals,                    \* update_view(final=True) callbacks scheduled
  ensures,                   \* _ensure_complete_update callbacks scheduled
  appended,                  \* reply text appended to the output view
  new_content,               \* local of update_view
  current_length,            \* local of update_view
  final,                     \* argument of the update_view in progress
  threads,                   \* concurrent requests: each worker thread
  current_script,            \* ScriptRunner.current_script
  current_step,              \* ScriptRunner.current_step
  ran,                       \* the script steps executed, in order
  loaded,                    \* the steps of the script file as loaded
  config                     \* the settings' entry for the selected model

vars ==
  <<reply, parse_buffer, partial_json, stopping, response_complete,
    response_watchdog_active, idle, history, message_id, pc, attempt, body,
    wdTest, wdSleep, pendingHang, mainPc, hangLocal, sleeps, lastFail, terminals, returned, requests,
    stream, finalized, lateChunks, stopInRead, script, rest, cutInLine, data,
    labels, current_session_id, added_files, auto_resume_attempted, files,
    last_session_id, system_message, folders, knowledge, now, ops,
    executed, displayed, previous_reply_length, timer_running, polls,
    finals, ensures, appended, new_content, current_length, final, threads,
    current_script, current_step, ran, loaded, config>>

\* the cursor, the timer flag and the callbacks of the output view
cursorVars == <<previous_reply_length, timer_running, polls>>
flushVars == <<finals, ensures>>
updateVars == <<appended, new_content, current_length, final>>
viewVars == <<cursorVars, flushVars, updateVars>>
asmVars == <<reply, parse_buffer, partial_json>>
threadVars == <<pc, attempt, body>>
watchdogVars == <<wdTest, wdSleep>>
mainVars == <<mainPc, hangLocal>>
retryVars == <<sleeps, lastFail, terminals, returned>>
ghostVars ==
  <<retryVars, finalized, executed, displayed, viewVars, lateChunks,
    stopInRead>>
storeVars == <<current_session_id, files, last_session_id>>
envVars == <<system_message, folders, knowledge, now, config>>
sessVars ==
  <<labels, added_files, auto_resume_attempted, storeVars, envVars, ops>>
scriptVars == <<script, rest, cutInLine, data>>
\* the state of the runs with concurrent requests
\* the script runner
runnerVars == <<current_script, current_step, ran, loaded>>
sideVars == <<threads, runnerVars>>
runVars == <<scriptVars, sideVars, sessVars>>
\* what a finalization leaves alone outside the streaming state
keptVars ==
  <<scriptVars, sideVars, labels, added_files, auto_resume_attempted,
    envVars, ops>>

Min(a, b) == IF a < b THEN a ELSE b

\* a message of the history; id 0 and label NoLabel stand for a dict
\* without that key
NoLabel == "-"

LabelledMessage(role, content, id, label) ==
  [role |-> role, content |-> content, id |-> id, label |-> label]

Message(role, content, id) == LabelledMessage(role, content, id, NoLabel)

(***************************************************************************)
(* Session files (SessionManager)                                          *)
(***************************************************************************)
\* messages of a history, and ids handed out, before the session runs
\* stop adding messages; the last value of the clock
MaxHist == 4
MaxId == 2
MaxClock == 1
\* commands of one session run
MaxOps == 3

\* a session id is the sequence of its characters; None is no id
NoSessionId == <<"None">>
\* no name given (None, or the empty string: both fail `if name:`)
NoName == <<>>
NoTime == -1

\* characters of a session name, at most
MaxName == 2

\* session names the user types, and the labels of /label:
Names == {<<"S", SP, "1">>}
Labels == {"L1"}
\* the paths of the files the user attaches
Paths == {K_path}

\* the characters of names: letters, a digit, '-', '_', a space, '/'
NameChars == {"S", "s", "1", "-", "_", SP, "/"}
\* those of them that \w matches
WordChars == {"S", "s", "1", "_"}

\* str.lower() on one character
Lower(ch) == IF ch = "S" THEN "s" ELSE ch

\* generate_session_id without its re.sub and lower()
RawName(name) == name

\* re.sub(r'[^\w\-]', '_', name.lower())
SanitizedName(name) ==
  [i \in DOMAIN name |->
     IF Lower(name[i]) \in WordChars \cup {"-"} THEN Lower(name[i]) ELSE "_"]

\* datetime.now().strftime('%Y%m%d_%H%M%S')
TimeStamp(t) == <<ToString(t)>>

GenerateSessionId(name, t) ==
  IF name # NoName THEN SanitizedName(name) ELSE TimeStamp(t)

SessionIds == {SanitizedName(n) : n \in Names} \cup
              {TimeStamp(t) : t \in 0..MaxClock}

\* the two directories get_sessions_dir chooses between
Dirs == {"project", "user"}

\* get_sessions_dir(window): window is FALSE for a call without a window
GetSessionsDir(window) == IF window /\ folders THEN "project" ELSE "user"

\* json.dump of a str and of one message: the keys in insertion order
DumpText(txt) == <<QUOTE>> \o txt \o <<QUOTE>>

DumpMessage(m) ==
  <<LB, K_role, COLON, SP>> \o DumpText(<<m.role>>)
  \o <<COMMA, NL, K_content, COLON, SP>> \o DumpText(m.content)
  \o (IF m.id # 0 THEN <<COMMA, NL, K_id, COLON, SP>> \o DumpInt(m.id)
      ELSE <<>>)
  \o (IF m.label # NoLabel
      THEN <<COMMA, NL, K_label, COLON, SP>> \o DumpText(<<m.label>>)
      ELSE <<>>)
  \o <<RB>>

\* the items of a list or of a dict, one to a line
RECURSIVE DumpItems(_)
DumpItems(items) ==
  IF items = <<>> THEN <<>>
  ELSE IF Len(items) = 1 THEN Head(items)
  ELSE Head(items) \o <<COMMA, NL>> \o DumpItems(Tail(items))

DumpHistory(h) ==
  <<LK>> \o DumpItems([i \in 1..Len(h) |-> DumpMessage(h[i])]) \o <<RK>>

\* the content of the message add_file appends for a path
FileNote(path) == <<"File available: ", path>>

\* the paths of a dict of files, in the order json.dump writes them
RECURSIVE PathSeq(_)
PathSeq(ps) ==
  IF ps = {} THEN <<>>
  ELSE LET q == CHOOSE q \in ps : TRUE IN <<q>> \o PathSeq(ps \ {q})

\* 'added_files': {path: {'content': ...}}
DumpAddedFiles(ps) ==
  <<LB>>
  \o DumpItems([i \in 1..Cardinality(ps) |->
       <<PathSeq(ps)[i], COLON, SP, LB, K_content, COLON, SP>>
       \o DumpText(FileNote(PathSeq(ps)[i])) \o <<RB>>])
  \o <<RB>>

\* json.dump(session_data, f, indent=2, ensure_ascii=False)
DumpSession(d) ==
  <<LB, K_id, COLON, SP>> \o DumpText(d.id)
  \o <<COMMA, NL, K_created_at, COLON, SP>> \o DumpInt(d.created_at)
  \o <<COMMA, NL, K_updated_at, COLON, SP>> \o DumpInt(d.updated_at)
  \o <<COMMA, NL, K_history, COLON, SP>> \o DumpHistory(d.history)
  \o <<COMMA, NL, K_added_files, COLON, SP>>
  \o DumpAddedFiles(d.added_files)
  \o <<RB>>

\* a message as json.load gives it back
LoadMessage(v) ==
  LabelledMessage(v.m[K_role].s[1], v.m[K_content].s,
                  IF K_id \in DOMAIN v.m THEN v.m[K_id].n ELSE 0,
                  IF K_label \in DOMAIN v.m THEN v.m[K_label].s[1]
                  ELSE NoLabel)

\* json.load(f) of a session file
LoadSessionText(text) ==
  LET v == JsonLoads(text).v IN
  [id |-> v.m[K_id].s,
   created_at |-> v.m[K_created_at].n,
   updated_at |-> v.m[K_updated_at].n,
   history |-> [i \in 1..Len(v.m[K_history].e) |->
                  LoadMessage(v.m[K_history].e[i])],
   added_files |-> DOMAIN v.m[K_added_files].m]

\* a session file: its text, and the history object that was handed to
\* json.dump when it was written
SessionFile(d) == [text |-> DumpSession(d), written |-> d.history]

NoFiles == [d \in Dirs |-> [i \in {} |-> SessionFile(
              [id |-> "", created_at |-> 0, updated_at |-> 0,
               history |-> <<>>, added_files |-> {}])]]

\* SessionManager.save_session(session_id, data, window) at time t: the
\* data are [history, added_files, created_at], created_at = NoTime when
\* the key is absent
SaveSession(fs, session_id, session, window, t) ==
  LET dir == GetSessionsDir(window)
      session_data ==
        [id |-> session_id,
         created_at |-> IF session.created_at = NoTime THEN t
                        ELSE session.created_at,
         updated_at |-> t,
         history |-> session.history,
         added_files |-> session.added_files]
  IN
  [fs EXCEPT ![dir] = (session_id :> SessionFile(session_data)) @@ @]

NotFound ==
  [found |-> FALSE,
   data |-> [id |-> "", created_at |-> 0, updated_at |-> 0,
             history |-> <<>>, added_files |-> {}]]

\* os.path.exists(file_path) for the file of session_id
SessionExists(fs, session_id, window) ==
  session_id \in DOMAIN fs[GetSessionsDir(window)]

\* SessionManager.load_session(session_id, window): found = FALSE is None
LoadSession(fs, session_id, window) ==
  IF ~SessionExists(fs, session_id, window) THEN NotFound
  ELSE [found |-> TRUE,
        data |-> LoadSessionText(
                   fs[GetSessionsDir(window)][session_id].text)]

\* the ids of dir other than session_id
Remaining(fs, dir, session_id) == DOMAIN fs[dir] \ {session_id}

\* delete_session that reports the file removed and leaves it in place
DeleteSessionKeepsFile(fs, session_id, window) ==
  [found |-> SessionExists(fs, session_id, window), files |-> fs]

\* SessionManager.delete_session(session_id, window): the value returned
\* and the files left
DeleteSession(fs, session_id, window) ==
  LET dir == GetSessionsDir(window) IN
  IF SessionExists(fs, session_id, window)
  THEN [found |-> TRUE,
        files |-> [fs EXCEPT ![dir] =
                     [i \in Remaining(fs, dir, session_id) |-> fs[dir][i]]]]
  ELSE [found |-> FALSE, files |-> fs]

\* the orders in which os.listdir may give the files of a directory
Orders(S) ==
  {o \in [1..Cardinality(S) -> S] :
     \A i, j \in DOMAIN o : i # j => o[i] # o[j]}

ListDir(fs, dir) == Orders(DOMAIN fs[dir])

\* data.get(key) for a time: NoTime is None
GetTime(v, key) == IF key \in DOMAIN v.m THEN v.m[key].n ELSE NoTime

\* the entry list_sessions makes of one file; listed = FALSE when json.load
\* or data.get raises and the bare except goes on to the next file
SessionEntry(text) ==
  LET r == JsonLoads(text) IN
  IF r.ok /\ r.v.t = "obj"
  THEN [listed |-> TRUE,
        id |-> IF K_id \in DOMAIN r.v.m THEN r.v.m[K_id].s ELSE NoSessionId,
        created_at |-> GetTime(r.v, K_created_at),
        updated_at |-> GetTime(r.v, K_updated_at),
        message_count |-> IF K_history \in DOMAIN r.v.m
                          THEN Len(r.v.m[K_history].e) ELSE 0]
  ELSE [listed |-> FALSE, id |-> NoSessionId, created_at |-> NoTime,
        updated_at |-> NoTime, message_count |-> 0]

\* the entries in the order of the listing, as they were read
KeepOrder(entries) == entries

\* e put into a list that is in descending order of updated_at, behind
\* the entries of the same time
RECURSIVE InsertByUpdated(_, _)
InsertByUpdated(sorted, e) ==
  IF sorted = <<>> THEN <<e>>
  ELSE IF Head(sorted).updated_at >= e.updated_at
       THEN <<Head(sorted)>> \o InsertByUpdated(Tail(sorted), e)
       ELSE <<e>> \o sorted

\* sessions.sort(key=updated_at, reverse=True): a stable sort
RECURSIVE SortByUpdated(_)
SortByUpdated(entries) ==
  IF entries = <<>> THEN <<>>
  ELSE InsertByUpdated(SortByUpdated(SubSeq(entries, 1, Len(entries) - 1)),
                       entries[Len(entries)])

\* list_sessions when os.listdir gives the files in the given order;
\* raised is the TypeError of a sort that compares None
ListSessionsIn(fs, dir, order) ==
  LET read == [i \in DOMAIN order |-> SessionEntry(fs[dir][order[i]].text)]
      entries == SelectSeq(read, LAMBDA e : e.listed)
      raised == /\ Len(entries) >= 2
                /\ \E i \in DOMAIN entries : entries[i].updated_at = NoTime
  IN [raised |-> raised,
      sessions |-> IF raised THEN <<>> ELSE SortByUpdated(entries)]

\* SessionManager.list_sessions(window): the outcomes it may have
list_sessions(fs, window) ==
  LET dir == GetSessionsDir(window) IN
  {ListSessionsIn(fs, dir, order) : order \in ListDir(fs, dir)}

\* a file of the sessions directory that a save of an earlier run left
\* unfinished: the head of a session's text
LeftoverId == <<"old">>
TruncatedText ==
  SubSeq(DumpSession([id |-> LeftoverId, created_at |-> 0, updated_at |-> 0,
                      history |-> <<>>, added_files |-> {}]), 1, 6)
TruncatedFile == [text |-> TruncatedText, written |-> <<>>]

(***************************************************************************)
(* The controller's history, labels and session (DeepSeekChatCommand)      *)
(***************************************************************************)
\* the fields of the controller the session commands read and write,
\* with the session files and the setting 'last_session_id'
Controller ==
  [history |-> history, message_id |-> message_id, labels |-> labels,
   current_session_id |-> current_session_id, added_files |-> added_files,
   files |-> files, last_session_id |-> last_session_id]

NoLabels == [l \in {} |-> 0]

\* the two values the setting 'system_message' takes
SystemMessages == {"sys", "sys2"}

\* get_system_message()
GetSystemMessage == <<system_message>>

KnowledgeNote == "I have access to this knowledge base:"

\* list.insert(1, x)
InsertAt1(h, x) == IF h = <<>> THEN <<x>> ELSE <<Head(h), x>> \o Tail(h)

\* list.pop(1)
Pop1(h) == <<Head(h)>> \o Tail(Tail(h))

\* try_load_knowledge_base with the message put in front of the history
TryLoadKnowledgeBaseAtHead(c) ==
  IF knowledge
  THEN [c EXCEPT !.history =
          <<Message("assistant", <<KnowledgeNote>>, 0)>> \o @]
  ELSE c

TryLoadKnowledgeBase(c) ==
  IF knowledge
  THEN [c EXCEPT !.history =
          InsertAt1(@, Message("assistant", <<KnowledgeNote>>, 0))]
  ELSE c

\* 'knowledge base' in content
MentionsKnowledge(content) ==
  \E i \in 1..Len(content) : content[i] = KnowledgeNote

reload_knowledge_base(c) ==
  TryLoadKnowledgeBase(
    IF /\ Len(c.history) > 1
       /\ c.history[2].role = "assistant"
       /\ MentionsKnowledge(c.history[2].content)
    THEN [c EXCEPT !.history = Pop1(@)]
    ELSE c)

\* history[0]['content'] = get_system_message(), under its test
RefreshSystemMessage(c) ==
  IF c.history # <<>> /\ c.history[1].role = "system"
  THEN [c EXCEPT !.history[1].content = GetSystemMessage]
  ELSE c

reset_history(c) ==
  TryLoadKnowledgeBase(
    [c EXCEPT !.history = <<Message("system", GetSystemMessage, 0)>>,
              !.added_files = {},
              !.current_session_id = NoSessionId,
              !.message_id = 0,
              !.labels = NoLabels])

add_message_to_history(c, role, content, label) ==
  [c EXCEPT !.message_id = @ + 1,
            !.labels = IF label = NoLabel THEN @
                       ELSE (label :> (c.message_id + 1)) @@ @,
            !.history = Append(@, LabelledMessage(role, content,
                                                  c.message_id + 1, label))]

\* the session data both save paths prepare, with created_at of `existing`
SessionData(c, existing) ==
  [history |-> c.history, added_files |-> c.added_files,
   created_at |-> IF existing.found THEN existing.data.created_at
                  ELSE NoTime]

auto_save_session(c) ==
  LET session_id == IF c.current_session_id = NoSessionId
                    THEN GenerateSessionId(NoName, now)
                    ELSE c.current_session_id
      c1 == [c EXCEPT !.current_session_id = session_id]
  IN
  IF Len(c.history) > 1
  THEN [c1 EXCEPT
          !.files = SaveSession(c.files, session_id,
                      SessionData(c, LoadSession(c.files, session_id, TRUE)),
                      TRUE, now),
          !.last_session_id = session_id]
  ELSE c1

\* save_current_session(session_name); NoName is a call without a name
save_current_session(c, session_name) ==
  IF Len(c.history) <= 1 THEN c
  ELSE
    LET session_id ==
          IF session_name # NoName
          THEN GenerateSessionId(session_name, now)
          ELSE IF c.current_session_id # NoSessionId
          THEN c.current_session_id
          ELSE GenerateSessionId(NoName, now)
    IN
    [c EXCEPT
       !.files = SaveSession(c.files, session_id,
                   SessionData(c, LoadSession(c.files, session_id, FALSE)),
                   TRUE, now),
       !.current_session_id = session_id,
       !.last_session_id = session_id]

\* a restore that keeps the stored content of the first message
RestoreVerbatim(c, session_id, session_data) ==
  [c EXCEPT !.history = session_data.history,
            !.current_session_id = session_id,
            !.added_files = session_data.added_files]

\* the assignments load_session and try_auto_resume make from session_data
Restore(c, session_id, session_data) ==
  RefreshSystemMessage(
    [c EXCEPT !.history = session_data.history,
              !.current_session_id = session_id,
              !.added_files = session_data.added_files])

load_session(c, session_id) ==
  LET session == LoadSession(c.files, session_id, TRUE) IN
  IF ~session.found THEN c ELSE Restore(c, session_id, session.data)

\* try_auto_resume(): enabled is the setting 'auto_resume'
try_auto_resume(c, enabled) ==
  IF ~enabled \/ c.last_session_id = NoSessionId
  THEN TryLoadKnowledgeBase(c)
  ELSE
    LET session == LoadSession(c.files, c.last_session_id, TRUE) IN
    IF ~session.found THEN TryLoadKnowledgeBase(c)
    ELSE Restore(c, c.last_session_id, session.data)

\* what /rewind: takes: a label, the digits of an id, or neither
RewindTargets == Labels \cup {ToString(n) : n \in 0..MaxId} \cup {"x"}

IsInt(target) == \E n \in 0..MaxId : ToString(n) = target
IntOf(target) == CHOOSE n \in 0..MaxId : ToString(n) = target

\* index of the first message of h with the id target_id, 0 when none
RECURSIVE FindId(_, _, _)
FindId(h, target_id, i) ==
  IF i > Len(h) THEN 0
  ELSE IF h[i].id # 0 /\ h[i].id = target_id THEN i
  ELSE FindId(h, target_id, i + 1)

\* the loop that rebuilds self.labels from the messages of h
RECURSIVE RebuildLabels(_, _)
RebuildLabels(h, acc) ==
  IF h = <<>> THEN acc
  ELSE RebuildLabels(Tail(h),
         IF Head(h).label # NoLabel
         THEN (Head(h).label :> Head(h).id) @@ acc
         ELSE acc)

\* a rewind that empties the label map before it looks for the target
RewindClearsLabels(c, target) == [c EXCEPT !.labels = NoLabels]

rewind_to(c, target) ==
  IF target \notin DOMAIN c.labels /\ ~IsInt(target) THEN c
  ELSE
    LET target_id == IF target \in DOMAIN c.labels THEN c.labels[target]
                     ELSE IntOf(target)
        n == FindId(c.history, target_id, 1)
    IN
    IF n = 0 THEN c
    ELSE auto_save_session(
           [c EXCEPT !.history = SubSeq(@, 1, n),
                     !.labels = RebuildLabels(SubSeq(c.history, 1, n),
                                              NoLabels)])

\* add_file(file_path) for a file that exists
add_file(c, file_path) ==
  IF file_path \in c.added_files THEN c
  ELSE [c EXCEPT !.history = Append(@, Message("system",
                                               FileNote(file_path), 0)),
                 !.added_files = @ \cup {file_path}]

\* a /new that resets without saving first
NewSessionNoSave(c, session_name) ==
  [RefreshSystemMessage(reset_history(c)) EXCEPT !.current_session_id =
     IF session_name # NoName THEN GenerateSessionId(session_name, now)
     ELSE NoSessionId]

\* on_done for /new and /new:name
new_session(c, session_name) ==
  LET c1 == IF Len(c.history) > 1 /\ c.current_session_id # NoSessionId
            THEN auto_save_session(c) ELSE c
      c2 == RefreshSystemMessage(reset_history(c1))
  IN
  [c2 EXCEPT !.current_session_id =
     IF session_name # NoName THEN GenerateSessionId(session_name, now)
     ELSE NoSessionId]

\* the controller's delete_session: the value SessionManager returned and
\* the controller left
delete_session(c, session_id) ==
  LET r == DeleteSession(c.files, session_id, TRUE) IN
  [found |-> r.found,
   c |-> IF r.found
         THEN [c EXCEPT !.files = r.files,
                        !.current_session_id =
                          IF @ = session_id THEN NoSessionId ELSE @]
         ELSE c]

\* the controller after an operation that leaves it as c
Becomes(c) ==
  \E v \in {c} :
    /\ history' = v.history
    /\ message_id' = v.message_id
    /\ labels' = v.labels
    /\ current_session_id' = v.current_session_id
    /\ added_files' = v.added_files
    /\ files' = v.files
    /\ last_session_id' = v.last_session_id

\* a window without a project folder and without a knowledge file, after
\* run() found no session to resume
PlainWindow ==
  /\ folders = FALSE
  /\ knowledge = FALSE
  /\ auto_resume_attempted = TRUE

\* __init__ and reset_history, in a window whose folders and knowledge
\* file are given
ControllerInit ==
  /\ reply = <<>>
  /\ parse_buffer = <<>>
  /\ partial_json = <<>>
  /\ stopping = FALSE
  /\ response_complete = FALSE
  /\ response_watchdog_active = FALSE
  /\ idle = 0
  /\ system_message = "sys"
  /\ now = 0
  /\ LET c == reset_history(
                [history |-> <<>>, message_id |-> 0, labels |-> NoLabels,
                 current_session_id |-> NoSessionId, added_files |-> {},
                 files |-> NoFiles, last_session_id |-> NoSessionId])
     IN /\ history = c.history
        /\ message_id = c.message_id
        /\ labels = c.labels
        /\ current_session_id = c.current_session_id
        /\ added_files = c.added_files
        /\ files = c.files
        /\ last_session_id = c.last_session_id
  /\ ops = 0
  /\ pc = "idle"
  /\ attempt = 0
  /\ body = <<>>
  /\ wdTest = 0
  /\ wdSleep = 0
  /\ pendingHang = 0
  /\ mainPc = "idle"
  /\ hangLocal = <<>>
  /\ sleeps = <<>>
  /\ lastFail = "none"
  /\ terminals = 0
  /\ returned = 0
  /\ requests = 0
  /\ stream = TRUE
  /\ finalized = <<>>
  /\ executed = <<>>
  /\ displayed = <<>>
  /\ previous_reply_length = 0
  /\ timer_running = FALSE
  /\ polls = 0
  /\ finals = 0
  /\ ensures = 0
  /\ appended = <<>>
  /\ new_content = <<>>
  /\ current_length = 0
  /\ final = FALSE
  /\ threads = <<>>
  /\ current_script = [active |-> FALSE, steps |-> <<>>]
  /\ current_step = 0
  /\ ran = <<>>
  /\ loaded = <<>>
  /\ lateChunks = 0
  /\ stopInRead = FALSE

Init ==
  /\ PlainWindow
  /\ config \in Configs
  /\ ControllerInit
  /\ script = <<>>
  /\ rest = <<>>
  /\ cutInLine = FALSE
  /\ data = JNull

(***************************************************************************)
(* Main thread: user input (on_done) and scheduled callbacks               *)
(***************************************************************************)
\* send_message_with_retry without its returns on a missing entry or
\* request: the thread is started
SendMessageUnchecked == "setup"

\* send_message_with_retry: where the worker thread is afterwards.  Without
\* a model entry, or when _prepare_request returns None for a missing
\* 'api_key' or 'url', it returns before threading.Thread(...).start()
send_message_with_retry == IF config = "ok" THEN "setup" ELSE pc

\* on_done with a regular message: add_message_to_history('user', ...),
\* then send_message_with_retry starts the worker thread.  The user sends
\* the next message after the worker of the previous one has returned.
OnDoneMessage(s) ==
  /\ mainPc = "idle"
  /\ pc \in {"idle", "done"}
  /\ requests < MaxRequests
  /\ message_id' = message_id + 1
  /\ history' = Append(history, Message("user", <<"msg">>, message_id + 1))
  /\ stream' = s
  /\ pc' = send_message_with_retry
  /\ attempt' = 0
  /\ requests' = requests + 1
  /\ sleeps' = <<>>
  /\ lastFail' = "none"
  /\ terminals' = 0
  /\ returned' = 0
  /\ finalized' = <<>>
  /\ executed' = <<>>
  /\ displayed' = <<>>
  /\ UNCHANGED viewVars
  /\ UNCHANGED <<asmVars, stopping, response_complete,
                 response_watchdog_active, idle, body, watchdogVars,
                 pendingHang, mainVars, lateChunks, stopInRead, runVars>>

\* on_done('/stop')
OnDoneStop ==
  /\ mainPc = "idle"
  /\ ~stopping
  /\ stopping' = TRUE
  /\ stopInRead' = (pc = "read")
  /\ UNCHANGED <<asmVars, response_complete, response_watchdog_active, idle,
                 history, message_id, threadVars, watchdogVars, pendingHang,
                 mainVars, retryVars, requests, stream, finalized, executed, displayed, viewVars,
                 lateChunks,
                 runVars>>

\* _handle_hang without its test of response_complete
HandleHangBeginUnguarded ==
  /\ mainPc = "idle"
  /\ pendingHang > 0
  /\ pendingHang' = pendingHang - 1
  /\ mainPc' = "hang"
  /\ hangLocal' = reply
  /\ UNCHANGED <<asmVars, stopping, response_complete,
                 response_watchdog_active, idle, history, message_id,
                 threadVars, watchdogVars, ghostVars, requests, stream,
                 runVars>>

\* _handle_hang, up to the load of self.reply in `self.reply += ...`;
\* the handler does not take content_lock
HandleHangBegin ==
  /\ mainPc = "idle"
  /\ pendingHang > 0
  /\ pendingHang' = pendingHang - 1
  /\ IF response_complete
     THEN UNCHANGED mainVars
     ELSE mainPc' = "hang" /\ hangLocal' = reply
  /\ UNCHANGED <<asmVars, stopping, response_complete,
                 response_watchdog_active, idle, history, message_id,
                 threadVars, watchdogVars, ghostVars, requests, stream,
                 runVars>>

\* self.reply[n:]
NewContent(r, n) == SubSeq(r, n + 1, Len(r))

\* _handle_hang from the store to self.reply on: the notice, the flags,
\* add_message_to_history('assistant', self.reply), auto_save_session(),
\* update_view(final=True)
HandleHangFinish ==
  /\ mainPc = "hang"
  /\ reply' = hangLocal \o <<HangNotice>>
  /\ response_complete' = TRUE
  /\ stopping' = TRUE
  /\ stopInRead' = IF stopping THEN stopInRead ELSE (pc = "read")
  /\ Becomes(auto_save_session(
       add_message_to_history(Controller, "assistant", reply', NoLabel)))
  /\ finalized' = Append(finalized, "hang")
  /\ executed' = executed
  /\ displayed' = displayed
  /\ appended' = appended \o NewContent(reply', previous_reply_length)
  /\ previous_reply_length' =
       IF NewContent(reply', previous_reply_length) # <<>>
       THEN Len(reply') ELSE previous_reply_length
  /\ timer_running' = FALSE
  /\ UNCHANGED <<polls, flushVars, new_content, current_length, final>>
  /\ mainPc' = "idle"
  /\ hangLocal' = <<>>
  /\ UNCHANGED <<parse_buffer, partial_json, response_watchdog_active, idle,
                 threadVars, watchdogVars, pendingHang, retryVars, requests,
                 stream, lateChunks, keptVars>>

(***************************************************************************)
(* Watchdog threads (_stream_watchdog)                                     *)
(***************************************************************************)
\* the test of `while self.response_watchdog_active`
WatchdogTest ==
  /\ wdTest > 0
  /\ wdTest' = wdTest - 1
  /\ wdSleep' = IF response_watchdog_active THEN wdSleep + 1 ELSE wdSleep
  /\ UNCHANGED <<asmVars, stopping, response_complete,
                 response_watchdog_active, idle, history, message_id,
                 threadVars, pendingHang, mainVars, ghostVars, requests,
                 stream, runVars>>

\* after time.sleep(1): the elapsed-time check and what follows it
WatchdogWake ==
  /\ wdSleep > 0
  /\ wdSleep' = wdSleep - 1
  /\ IF idle > HangThreshold /\ ~response_complete
     THEN /\ response_watchdog_active' = FALSE
          /\ pendingHang' = IF reply # <<>> THEN pendingHang + 1
                            ELSE pendingHang
          /\ wdTest' = wdTest
     ELSE /\ wdTest' = wdTest + 1
          /\ UNCHANGED <<response_watchdog_active, pendingHang>>
  /\ UNCHANGED <<asmVars, stopping, response_complete, idle, history,
                 message_id, threadVars, mainVars, ghostVars, requests,
                 stream, runVars>>

\* time passes without a read returning
Tick ==
  /\ idle <= HangThreshold
  /\ idle' = Min(idle + TickStep, HangThreshold + 1)
  /\ UNCHANGED <<asmVars, stopping, response_complete,
                 response_watchdog_active, history, message_id, threadVars,
                 watchdogVars, pendingHang, mainVars, ghostVars, requests,
                 stream, runVars>>

(***************************************************************************)
(* Request worker thread (_send_message_thread)                            *)
(***************************************************************************)
CurrentState == StreamState(reply, parse_buffer, partial_json)

\* the except clause with a wait that does not grow with the attempt
FailAttemptFlatWait(kind) ==
  /\ lastFail' = kind
  /\ returned' = returned
  /\ IF attempt < MaxRetries - 1
     THEN /\ sleeps' = Append(sleeps, BackoffUnit)
          /\ pc' = "backoff"
          /\ terminals' = terminals
     ELSE /\ terminals' = terminals + 1
          /\ pc' = "done"
          /\ sleeps' = sleeps

\* the except clause without HTTPError in its tuple: the thread ends
FailAttemptHTTPFinal(kind) ==
  /\ lastFail' = kind
  /\ returned' = returned
  /\ IF attempt < MaxRetries - 1 /\ kind # "HTTPError"
     THEN /\ sleeps' = Append(sleeps, (attempt + 1) * BackoffUnit)
          /\ pc' = "backoff"
          /\ terminals' = terminals
     ELSE /\ terminals' = IF kind = "HTTPError" THEN terminals
                          ELSE terminals + 1
          /\ pc' = "done"
          /\ sleeps' = sleeps

\* the except clause of _send_message_thread for an exception of `kind`
FailAttempt(kind) ==
  /\ lastFail' = kind
  /\ returned' = returned
  /\ IF attempt < MaxRetries - 1
     THEN /\ sleeps' = Append(sleeps, (attempt + 1) * BackoffUnit)
          /\ pc' = "backoff"
          /\ terminals' = terminals
     ELSE /\ terminals' = terminals + 1
          /\ pc' = "done"
          /\ sleeps' = sleeps

\* setup_streaming and _stream_response_sync up to the start of the
\* watchdog thread
WorkerSetup ==
  /\ pc = "setup"
  /\ stream
  /\ reply' = <<>>
  /\ parse_buffer' = <<>>
  /\ partial_json' = <<>>
  /\ response_complete' = FALSE
  /\ idle' = 0
  /\ response_watchdog_active' = TRUE
  /\ wdTest' = wdTest + 1
  /\ timer_running' = FALSE
  /\ previous_reply_length' = 0
  /\ pc' = "connect"
  /\ UNCHANGED <<stopping, history, message_id, attempt, body, wdSleep,
                 pendingHang, mainVars, retryVars, finalized, executed,
                 displayed, polls, flushVars, updateVars, lateChunks,
                 stopInRead, requests, stream, runVars>>

\* urllib.request.urlopen(request, timeout=30) of the streaming path
WorkerConnect ==
  /\ pc = "connect"
  /\ \/ /\ \E r \in Responses : body' = r
        /\ parse_buffer' = <<>>
        /\ pc' = "check"
        /\ UNCHANGED retryVars
     \/ /\ \E kind \in {"URLError", "HTTPError"} : FailAttempt(kind)
        /\ UNCHANGED <<body, parse_buffer>>
  /\ UNCHANGED <<reply, partial_json, stopping, response_complete,
                 response_watchdog_active, idle, history, message_id,
                 attempt, watchdogVars, pendingHang, mainVars, requests,
                 stream, finalized, executed, displayed, viewVars, lateChunks, stopInRead, runVars>>

\* the loop test without `not self.stopping`
WorkerCheckNoStop ==
  /\ pc = "check"
  /\ pc' = "read"
  /\ UNCHANGED <<asmVars, stopping, response_complete,
                 response_watchdog_active, idle, history, message_id,
                 attempt, body, watchdogVars, pendingHang, mainVars,
                 ghostVars, requests, stream, runVars>>

\* the test of `while True and not self.stopping`
WorkerCheck ==
  /\ pc = "check"
  /\ pc' = IF stopping THEN "finalize" ELSE "read"
  /\ UNCHANGED <<asmVars, stopping, response_complete,
                 response_watchdog_active, idle, history, message_id,
                 attempt, body, watchdogVars, pendingHang, mainVars,
                 ghostVars, requests, stream, runVars>>

\* response.read(1024) and the rest of the loop body
WorkerRead ==
  /\ pc = "read"
  /\ \/ /\ body # <<>>
        /\ \E st \in {FeedChunk(CurrentState, Head(body))} :
           /\ reply' = st.reply
           /\ parse_buffer' = st.parse_buffer
           /\ partial_json' = st.partial_json
        /\ body' = Tail(body)
        /\ idle' = 0
        /\ lateChunks' = IF stopping THEN lateChunks + 1 ELSE lateChunks
        /\ polls' = IF timer_running THEN polls ELSE polls + 1
        /\ timer_running' = TRUE
        /\ pc' = "check"
        /\ UNCHANGED retryVars
     \/ /\ body = <<>>
        /\ \E st \in {ProcessBuffer(CurrentState, TRUE)} :
           /\ reply' = st.reply
           /\ parse_buffer' = st.parse_buffer
           /\ partial_json' = st.partial_json
        /\ idle' = 0
        /\ pc' = "finalize"
        /\ UNCHANGED <<body, retryVars, lateChunks, timer_running, polls>>
     \/ /\ FailAttempt("socket.error")
        /\ UNCHANGED <<asmVars, body, idle, lateChunks, timer_running,
                       polls>>
  /\ UNCHANGED <<stopping, response_complete, response_watchdog_active,
                 history, message_id, attempt, watchdogVars, pendingHang,
                 mainVars, requests, stream, finalized, executed, displayed,
                 previous_reply_length, flushVars, updateVars, stopInRead,
                 runVars>>

\* _stream_response_sync after the loop
WorkerFinalize ==
  /\ pc = "finalize"
  /\ response_watchdog_active' = FALSE
  /\ \E st \in {ProcessPartialJson(CurrentState)} :
     \E function_results \in {process_response_with_functions(st.reply)} :
     /\ reply' = st.reply
     /\ partial_json' = st.partial_json
     /\ IF st.exc \/ st.reply = <<>>
        THEN UNCHANGED <<response_complete, history, message_id, labels,
                         added_files, storeVars, finalized, executed,
                         flushVars>>
        ELSE /\ executed' = executed \o Executed(st.reply, function_results)
             /\ IF Raises(function_results)
                THEN UNCHANGED <<response_complete, history, message_id,
                                 labels, added_files, storeVars, finalized,
                                 flushVars>>
                ELSE /\ response_complete' = TRUE
                     /\ finals' = finals + 1
                     /\ ensures' = ensures + 1
                     /\ Becomes(auto_save_session(
                          [Controller EXCEPT !.history =
                             AttachResults(
                               Append(@, Message("assistant",
                                                 CleanReply(st.reply), 0)),
                               function_results)]))
                     /\ finalized' = Append(finalized, "worker")
     /\ returned' = IF st.exc \/ (st.reply # <<>> /\ Raises(function_results))
                    THEN returned ELSE attempt + 1
  /\ displayed' = displayed
  /\ UNCHANGED <<cursorVars, updateVars>>
  /\ pc' = "done"
  /\ UNCHANGED <<parse_buffer, stopping, idle, attempt, body,
                 watchdogVars, pendingHang, mainVars, sleeps, lastFail,
                 terminals, requests, stream, lateChunks, stopInRead,
                 scriptVars, sideVars, auto_resume_attempted, envVars,
                 ops>>

\* time.sleep(wait_time) returns and the for loop goes on
WorkerBackoff ==
  /\ pc = "backoff"
  /\ attempt' = attempt + 1
  /\ pc' = "setup"
  /\ lastFail' = "none"
  /\ UNCHANGED <<asmVars, stopping, response_complete,
                 response_watchdog_active, idle, history, message_id, body,
                 watchdogVars, pendingHang, mainVars, sleeps, terminals,
                 returned, finalized, executed, displayed, viewVars, lateChunks, stopInRead,
                 requests,
                 stream, runVars>>

\* bodies of non-streaming responses
BodyWith(lit) ==
  <<LB, K_choices, COLON, LK, LB, K_message, COLON, LB, K_content, COLON,
    lit, RB, RB, RK, RB>>
EmptyChoices == <<LB, K_choices, COLON, LK, RK, RB>>
ContentLits == {S_a, S_calls, S_empty}
NonStreamingBodies == {BodyWith(lit) : lit \in ContentLits} \cup {EmptyChoices}

\* the placeholder for a response without a reply
NoReply == <<"No reply from the API.">>

\* a handler that takes every body for one without a reply
NoReplyFor(doc) == NoReply

\* the local reply of _handle_non_streaming_response_sync for a decoded
\* body whose choices is a list of objects
NonStreamingReply(doc) ==
  LET choices == IF K_choices \in DOMAIN doc.m THEN doc.m[K_choices]
                 ELSE JArr(<<>>)
  IN
  IF choices.e = <<>> THEN NoReply
  ELSE
    LET choice == choices.e[1]
        message == IF K_message \in DOMAIN choice.m THEN choice.m[K_message]
                   ELSE JObj(NoMembers)
    IN
    IF K_content \in DOMAIN message.m
    THEN TextOf(message.m[K_content].lit)
    ELSE NoReply

\* _handle_non_streaming_response_sync
WorkerNonStreaming ==
  /\ pc = "setup"
  /\ ~stream
  /\ \/ /\ \E b \in NonStreamingBodies :
             \E doc \in {JsonLoads(b).v} :
             \E r \in {NonStreamingReply(doc)} :
             IF doc.m[K_choices].e = <<>>
             THEN /\ returned' = attempt + 1
                  /\ displayed' = Append(displayed, r)
                  /\ UNCHANGED viewVars
                  /\ UNCHANGED <<message_id, history, labels, added_files,
                                 storeVars, finalized, executed, reply>>
             ELSE \E function_results \in
                       {process_response_with_functions(r)} :
                  LET c == add_message_to_history(Controller, "assistant",
                                                  CleanReply(r), NoLabel)
                  IN
                  /\ executed' = executed \o Executed(r, function_results)
                  /\ IF Raises(function_results)
                     THEN /\ returned' = returned
                          /\ UNCHANGED <<message_id, history, labels,
                                         added_files, storeVars, finalized,
                                         reply, displayed, viewVars>>
                     ELSE /\ Becomes(auto_save_session(
                               [c EXCEPT !.history =
                                  AttachResults(@, function_results)]))
                          /\ finalized' = Append(finalized, "worker")
                          /\ reply' = r
                          /\ displayed' = Append(displayed, r)
                          /\ UNCHANGED viewVars
                          /\ returned' = attempt + 1
        /\ pc' = "done"
        /\ UNCHANGED <<sleeps, lastFail, terminals>>
     \/ /\ \E kind \in FailureKinds : FailAttempt(kind)
        /\ UNCHANGED <<message_id, history, labels, added_files, storeVars,
                       finalized, executed, displayed, viewVars, reply>>
  /\ UNCHANGED <<parse_buffer, partial_json, stopping, response_complete,
                 response_watchdog_active, idle, attempt, body, watchdogVars,
                 pendingHang, mainVars, requests, stream, lateChunks,
                 stopInRead, scriptVars, sideVars, auto_resume_attempted,
                 envVars,
                 ops>>

Next ==
  \/ \E s \in BOOLEAN : OnDoneMessage(s)
  \/ OnDoneStop
  \/ HandleHangBegin
  \/ HandleHangFinish
  \/ WatchdogTest
  \/ WatchdogWake
  \/ Tick
  \/ WorkerSetup
  \/ WorkerConnect
  \/ WorkerCheck
  \/ WorkerRead
  \/ WorkerFinalize
  \/ WorkerBackoff
  \/ WorkerNonStreaming

Spec == Init /\ [][Next]_vars

TypeOK ==
  /\ pc \in {"idle", "setup", "connect", "check", "read", "finalize",
             "backoff", "done"}
  /\ attempt \in 0..(MaxRetries - 1)
  /\ idle \in 0..(HangThreshold + 1)
  /\ mainPc \in {"idle", "hang", "update"}

(***************************************************************************)
(* Assembler runs: one response body, cut into chunks in every way, fed    *)
(* through the read loop of _stream_response_sync up to end of stream.     *)
(***************************************************************************)
\* lines a response body is made of
MaxLines == 2
\* symbols a read returns when it does not return all that is left
MaxRead == 3

Line(text, delta) == [text |-> text, delta |-> delta]

\* lines of token streams: delta frames, each ended by one newline or by
\* the blank line that separates SSE events, and the [DONE] sentinel
DeltaLines ==
  { Line(DeltaFrame(S_a), <<S_a>>),
    Line(DeltaFrame(S_b) \o <<NL>>, <<S_b>>),
    Line(DeltaFrame(S_empty), <<>>),
    Line(DoneLine \o <<NL>>, <<>>) }

\* other lines: raw NDJSON, a line that lacks its newline, an object split
\* over two SSE lines, a broken object that holds a copy of the object
\* after it, and an object with a number for choices after a stray number
OtherLines ==
  { Line(<<LB, K_text, COLON, S_c, RB, NL>>, <<>>),
    Line(<<SP, LB, K_content, COLON, S_c, RB>>, <<>>),
    Line(DataPrefix \o <<LB, K_text, COLON, NL>>, <<>>),
    Line(DataPrefix \o <<S_c, RB, NL>>, <<>>),
    Line(<<LB, NUM, LB, K_content, COLON, S_a, RB, RB,
           LB, K_content, COLON, S_a, RB, NL>>, <<>>),
    Line(DataPrefix \o <<NUM, LB, K_choices, COLON, NUM, RB, NL>>, <<>>) }

Lines == DeltaLines \cup OtherLines

\* a delta frame that ends the body without a newline
LastLines == {Line(BareDeltaFrame(S_c), <<S_c>>)}

RECURSIVE ScriptsOf(_)
ScriptsOf(n) ==
  IF n = 0 THEN {<<>>}
  ELSE {<<l>> \o sc : l \in Lines, sc \in ScriptsOf(n - 1)}

Scripts ==
  LET full == UNION {ScriptsOf(n) : n \in 1..MaxLines} IN
  full \cup {sc \o <<l>> : sc \in ScriptsOf(MaxLines - 1), l \in LastLines}

RECURSIVE Flatten(_)
Flatten(sc) == IF sc = <<>> THEN <<>> ELSE Head(sc).text \o Flatten(Tail(sc))

AsmInit ==
  /\ PlainWindow
  /\ config = "ok"
  /\ ControllerInit
  /\ script \in Scripts
  /\ rest = Flatten(script)
  /\ cutInLine = FALSE
  /\ data = JNull

controllerRest ==
  <<stopping, response_complete, response_watchdog_active, idle, history,
    message_id, attempt, body, watchdogVars, pendingHang, mainVars,
    ghostVars, requests, stream, sessVars>>

\* sizes of the reads of a body of which n symbols are left
ReadSizes(n) == (1..Min(MaxRead, n)) \cup {n}

\* a read that returns the next n bytes of the body, and the loop body
AsmRead ==
  /\ pc = "idle"
  /\ rest # <<>>
  /\ \E n \in ReadSizes(Len(rest)) :
       LET st == FeedChunk(CurrentState, SubSeq(rest, 1, n)) IN
       /\ reply' = st.reply
       /\ parse_buffer' = st.parse_buffer
       /\ partial_json' = st.partial_json
       /\ rest' = Drop(rest, n)
       /\ cutInLine' = (cutInLine \/ (n < Len(rest) /\ st.parse_buffer # <<>>))
  /\ UNCHANGED <<pc, controllerRest, script, data, sideVars>>

\* the read that returns no data, and finalization up to
\* _process_partial_json
AsmEof ==
  /\ pc = "idle"
  /\ rest = <<>>
  /\ LET st == EndOfStream(CurrentState) IN
     /\ reply' = st.reply
     /\ parse_buffer' = st.parse_buffer
     /\ partial_json' = st.partial_json
  /\ pc' = "done"
  /\ UNCHANGED <<controllerRest, script, rest, cutInLine, data, sideVars>>

AsmNext == AsmRead \/ AsmEof

SpecAsm == AsmInit /\ [][AsmNext]_vars

(***************************************************************************)
(* Extraction runs: _extract_content on one decoded object                 *)
(***************************************************************************)
\* a field is absent, null or carries its value
FieldOptions(v) == {"absent", NULL, v}

\* the object {k: v}, or {} when v is "absent"
Member(k, v) ==
  IF v = "absent" THEN NoMembers
  ELSE k :> (IF v = NULL THEN JNull ELSE JStr(v))

\* delta and message: absent, {} or an object with a content member
NestedOptions(v) == {"absent", "empty"} \cup {NULL, v}

Nested(k, v) ==
  IF v = "absent" THEN NoMembers
  ELSE IF v = "empty" THEN k :> JObj(NoMembers)
  ELSE k :> JObj(Member(K_content, v))

TopLevels ==
  { Member(K_text, t) @@ Member(K_content, c) @@ Member(K_completion, p)
      @@ Member(K_response, r) :
      t \in FieldOptions(V_text), c \in FieldOptions(V_content),
      p \in FieldOptions(V_completion), r \in FieldOptions(V_response) }

Choices ==
  { JObj(Nested(K_delta, d) @@ Nested(K_message, m) @@ Member(K_text, t)) :
      d \in NestedOptions(V_delta), m \in NestedOptions(V_message),
      t \in FieldOptions(V_choice) }

\* decoded objects: no choices key, an empty choices list, one choice
Objects ==
  {JObj(top) : top \in TopLevels}
    \cup {JObj((K_choices :> JArr(<<>>)) @@ top) : top \in TopLevels}
    \cup {JObj((K_choices :> JArr(<<c>>)) @@ top) :
            c \in Choices, top \in TopLevels}

ExtractInit ==
  /\ PlainWindow
  /\ config = "ok"
  /\ ControllerInit
  /\ script = <<>>
  /\ rest = <<>>
  /\ cutInLine = FALSE
  /\ data \in Objects

\* _extract_content(data); an exception leaves the worker at "raised"
ExtractStep ==
  /\ pc = "idle"
  /\ LET x == ExtractContent(data) IN
     /\ reply' = reply \o x.add
     /\ pc' = IF x.kind = "raise" THEN "raised" ELSE "done"
  /\ UNCHANGED <<parse_buffer, partial_json, controllerRest, runVars>>

ExtractNext == ExtractStep

SpecExtract == ExtractInit /\ [][ExtractNext]_vars

(***************************************************************************)
(* Session runs: the commands of the input panel that act on the history,  *)
(* the labels and the session files.  A request is carried from its start  *)
(* to the end of its read loop in one step, with the reply the loop has    *)
(* assembled; its finalization is the step WorkerFinalize.                 *)
(***************************************************************************)
\* the replies a read loop ends with
Replies == {<<>>, <<S_a>>}

\* the streaming state a session command leaves alone
streamRest ==
  <<parse_buffer, partial_json, stopping, response_watchdog_active, idle,
    attempt, body, watchdogVars, pendingHang, mainVars, retryVars,
    lateChunks, stopInRead, requests, stream, scriptVars, sideVars>>
streamVars ==
  <<reply, pc, response_complete, finalized, executed, displayed, viewVars,
    streamRest>>

\* the input panel is open
PanelOpen == mainPc = "idle" /\ auto_resume_attempted

\* one more command of the run
Command ==
  /\ ops < MaxOps
  /\ ops' = ops + 1

\* send_message_with_retry and the worker it starts, up to the end of the
\* read loop
StartRequest ==
  /\ pc \in {"idle", "done"}
  /\ \E r \in Replies : reply' = r
  /\ response_complete' = FALSE
  /\ finalized' = <<>>
  /\ executed' = <<>>
  /\ displayed' = <<>>
  /\ UNCHANGED viewVars
  /\ pc' = "finalize"
  /\ UNCHANGED streamRest

\* run(): the first call tries to resume the last session
Run(enabled) ==
  /\ ~auto_resume_attempted
  /\ auto_resume_attempted' = TRUE
  /\ Becomes(try_auto_resume(Controller, enabled))
  /\ UNCHANGED <<streamVars, envVars, ops>>

\* on_done with a regular message (label = NoLabel) or with /label:
OnDoneSend(label) ==
  /\ PanelOpen
  /\ message_id < MaxId
  /\ Len(history) < MaxHist
  /\ Becomes(add_message_to_history(Controller, "user", <<"msg">>, label))
  /\ StartRequest
  /\ Command
  /\ UNCHANGED <<auto_resume_attempted, envVars>>

\* on_done with /new or /new:name
OnDoneNew(session_name) ==
  /\ PanelOpen
  /\ Becomes(new_session(Controller, session_name))
  /\ Command
  /\ UNCHANGED <<streamVars, auto_resume_attempted, envVars>>

\* on_done with /clear
OnDoneClear ==
  /\ PanelOpen
  /\ Becomes(reset_history(Controller))
  /\ Command
  /\ UNCHANGED <<streamVars, auto_resume_attempted, envVars>>

\* on_done with /rewind:target
OnDoneRewind(target) ==
  /\ PanelOpen
  /\ Becomes(rewind_to(Controller, target))
  /\ Command
  /\ UNCHANGED <<streamVars, auto_resume_attempted, envVars>>

\* on_done with /load:session_id, or a session picked from the list
OnDoneLoad(session_id) ==
  /\ PanelOpen
  /\ Becomes(load_session(Controller, session_id))
  /\ Command
  /\ UNCHANGED <<streamVars, auto_resume_attempted, envVars>>

\* on_done with /save or /save:name
OnDoneSave(session_name) ==
  /\ PanelOpen
  /\ Becomes(save_current_session(Controller, session_name))
  /\ Command
  /\ UNCHANGED <<streamVars, auto_resume_attempted, envVars>>

\* on_done with /delete:session_id
OnDoneDelete(session_id) ==
  /\ PanelOpen
  /\ Becomes(delete_session(Controller, session_id).c)
  /\ Command
  /\ UNCHANGED <<streamVars, auto_resume_attempted, envVars>>

\* on_done with /file:path or /read, for a file that exists
OnDoneFile(file_path) ==
  /\ PanelOpen
  /\ Len(history) < MaxHist
  /\ Becomes(add_file(Controller, file_path))
  /\ Command
  /\ UNCHANGED <<streamVars, auto_resume_attempted, envVars>>

\* on_done with /refresh: discover_functions, reload_knowledge_base
OnDoneRefresh ==
  /\ PanelOpen
  /\ Becomes(reload_knowledge_base(RefreshSystemMessage(Controller)))
  /\ Command
  /\ UNCHANGED <<streamVars, auto_resume_attempted, envVars>>

\* _execute_prompt_step of a script: system tells a system prompt
ExecutePromptStep(system) ==
  /\ PanelOpen
  /\ Len(history) < MaxHist
  /\ history' = Append(history, Message(IF system THEN "system" ELSE "user",
                                        <<"prompt">>, 0))
  /\ IF system THEN UNCHANGED streamVars ELSE StartRequest
  /\ Command
  /\ UNCHANGED <<message_id, labels, added_files, storeVars,
                 auto_resume_attempted, envVars>>

\* the plugin is started again: __init__, with the files and the settings
\* as they were left
Restart ==
  /\ PanelOpen
  /\ pc \in {"idle", "done"}
  /\ Becomes(reset_history([Controller EXCEPT !.history = <<>>,
                                              !.message_id = 0,
                                              !.labels = NoLabels]))
  /\ auto_resume_attempted' = FALSE
  /\ reply' = <<>>
  /\ pc' = "idle"
  /\ response_complete' = FALSE
  /\ finalized' = <<>>
  /\ executed' = <<>>
  /\ displayed' = <<>>
  /\ UNCHANGED viewVars
  /\ Command
  /\ UNCHANGED <<streamRest, envVars>>

\* the clock goes on
Tock ==
  /\ now < MaxClock
  /\ now' = now + 1
  /\ UNCHANGED <<streamVars, labels, added_files, auto_resume_attempted,
                 storeVars, history, message_id, system_message, folders,
                 knowledge, config, ops>>

\* the user edits the setting 'system_message'
SettingsChange ==
  /\ \E m \in SystemMessages \ {system_message} : system_message' = m
  /\ UNCHANGED <<streamVars, labels, added_files, auto_resume_attempted,
                 storeVars, history, message_id, folders, knowledge, now,
                 config, ops>>

\* a started plugin before its first run(), in a window with or without a
\* knowledge file
SessionInit ==
  /\ folders = FALSE
  /\ knowledge \in BOOLEAN
  /\ auto_resume_attempted = FALSE
  /\ config = "ok"
  /\ ControllerInit
  /\ script = <<>>
  /\ rest = <<>>
  /\ cutInLine = FALSE
  /\ data = JNull

\* the commands that act on the history and the labels
SessionNext ==
  \/ \E enabled \in BOOLEAN : Run(enabled)
  \/ \E label \in Labels \cup {NoLabel} : OnDoneSend(label)
  \/ \E name \in Names \cup {NoName} : OnDoneNew(name)
  \/ OnDoneClear
  \/ \E target \in RewindTargets : OnDoneRewind(target)
  \/ \E id \in SessionIds : OnDoneLoad(id)
  \/ \E name \in Names \cup {NoName} : OnDoneSave(name)
  \/ \E path \in Paths : OnDoneFile(path)
  \/ OnDoneRefresh
  \/ \E system \in BOOLEAN : ExecutePromptStep(system)
  \/ WorkerFinalize
  \/ Restart

SpecSession == SessionInit /\ [][SessionNext]_vars

\* a started plugin before its first run(), in a window with or without a
\* project folder
StoreInit ==
  /\ folders \in BOOLEAN
  /\ knowledge = FALSE
  /\ auto_resume_attempted = FALSE
  /\ config = "ok"
  /\ ControllerInit
  /\ script = <<>>
  /\ rest = <<>>
  /\ cutInLine = FALSE
  /\ data = JNull

\* the commands that write, read and remove session files, while the
\* clock goes on and the settings are edited
StoreNext ==
  \/ \E enabled \in BOOLEAN : Run(enabled)
  \/ OnDoneSend(NoLabel)
  \/ \E name \in Names \cup {NoName} : OnDoneSave(name)
  \/ \E id \in SessionIds : OnDoneLoad(id)
  \/ \E id \in SessionIds : OnDoneDelete(id)
  \/ WorkerFinalize
  \/ Tock
  \/ SettingsChange

SpecStore == StoreInit /\ [][StoreNext]_vars

\* a save that was interrupted leaves the head of a file in a sessions
\* directory
InterruptedSave ==
  /\ \E dir \in Dirs :
       /\ LeftoverId \notin DOMAIN files[dir]
       /\ files' = [files EXCEPT ![dir] = (LeftoverId :> TruncatedFile) @@ @]
  /\ UNCHANGED <<streamVars, labels, added_files, auto_resume_attempted,
                 current_session_id, last_session_id, history, message_id,
                 envVars, ops>>

\* sessions are saved and removed while the clock goes on
ListNext ==
  \/ Run(TRUE)
  \/ OnDoneSend(NoLabel)
  \/ \E name \in Names \cup {NoName} : OnDoneSave(name)
  \/ \E id \in SessionIds : OnDoneDelete(id)
  \/ WorkerFinalize
  \/ Tock
  \/ InterruptedSave

SpecList == StoreInit /\ [][ListNext]_vars

(***************************************************************************)
(* Tool runs: a request whose reply carries tool-call blocks, from the     *)
(* user's message to the end of the read loop in one step, and then the    *)
(* finalization.                                                           *)
(***************************************************************************)
\* lines of a multi-line value, and blocks of a reply, at most
MaxContent == 4
MaxBlocks == 2

\* the sequences over S of length at most n
SeqsUpTo(S, n) == UNION {[1..k -> S] : k \in 0..n}

ContentLines == {<<>>, <<"x">>, <<"y">>}

CommandLine(name) == <<AT_COMMAND, COLON, SP, name>>
ArgLine == <<"arg", COLON, SP, "x">>

\* a tool-call block with the given lines
Block(lines) == <<OPEN, NL>> \o Join(lines) \o <<NL, CLOSE>>

\* the reply of one block whose argument 'arg' is the multi-line value
\* with the lines `content` between its markers
MultilineReply(content) ==
  Block(<<CommandLine("run"), <<"arg", COLON, SP, ML_OPEN>> >>
          \o content \o << <<ML_CLOSE>> >>)

MultilineReplies ==
  {MultilineReply(content) : content \in SeqsUpTo(ContentLines, MaxContent)}

\* blocks: a known tool with an argument, an unknown tool, a tool that
\* raises, a block without '@command', a block without any 'key: value'
Blocks ==
  { Block(<<CommandLine("run"), ArgLine>>), Block(<<CommandLine("nope")>>),
    Block(<<CommandLine("boom")>>), Block(<<ArgLine>>), Block(<< <<"x">> >>) }

RECURSIVE Concat(_)
Concat(ss) == IF ss = <<>> THEN <<>> ELSE Head(ss) \o Concat(Tail(ss))

BlockReplies == {Concat(bs) : bs \in SeqsUpTo(Blocks, MaxBlocks) \ {<<>>}}

ToolReplies == MultilineReplies \cup BlockReplies

ToolsInit ==
  /\ PlainWindow
  /\ config = "ok"
  /\ ControllerInit
  /\ script = <<>>
  /\ rest = <<>>
  /\ cutInLine = FALSE
  /\ data = JNull

\* on_done with a regular message, send_message_with_retry and the worker
\* it starts, up to the end of the read loop
ToolsStart ==
  /\ PanelOpen
  /\ pc = "idle"
  /\ Becomes(add_message_to_history(Controller, "user", <<"msg">>, NoLabel))
  /\ \E r \in ToolReplies : reply' = r
  /\ response_complete' = FALSE
  /\ finalized' = <<>>
  /\ executed' = <<>>
  /\ displayed' = <<>>
  /\ UNCHANGED viewVars
  /\ pc' = "finalize"
  /\ UNCHANGED <<streamRest, auto_resume_attempted, envVars, ops>>

ToolsNext == ToolsStart \/ WorkerFinalize

SpecTools == ToolsInit /\ [][ToolsNext]_vars

(***************************************************************************)
(* Claims                                                                  *)
(***************************************************************************)
EmptyState == StreamState(<<>>, <<>>, <<>>)

\* the reply of a body read as a single chunk and then end of stream
WholeReply(text) == EndOfStream(FeedChunk(EmptyState, text)).reply

\* C1: whatever the cuts of a body into chunks, among them cuts inside the
\* 'data: ' prefix and inside a JSON object, the reply at the end of the
\* stream is the reply of the same body read as one chunk.
C1_ChunkingInvariant ==
  pc = "done" => reply = WholeReply(Flatten(script))

\* a body read in chunks, one of which ended inside a line, that yielded text
C1_Witness ==
  /\ pc = "done"
  /\ cutInLine
  /\ Len(script) > 1
  /\ reply # <<>>

RECURSIVE Deltas(_)
Deltas(sc) == IF sc = <<>> THEN <<>> ELSE Head(sc).delta \o Deltas(Tail(sc))

DeltaStream(sc) ==
  \A i \in 1..Len(sc) : sc[i] \in DeltaLines \cup LastLines

\* C10: for a stream of frames of the choices[0].delta.content shape, in
\* whatever chunks it arrives, the final reply is the concatenation of the
\* delta contents in arrival order.
C10_DeltaConcatenation ==
  (pc = "done" /\ DeltaStream(script)) => reply = Deltas(script)

\* two frames with text, cut inside a line, assembled in order
C10_Witness ==
  /\ pc = "done"
  /\ DeltaStream(script)
  /\ cutInLine
  /\ reply = <<S_a, S_b>>

\* value of member k of object o as reply text, <<>> when absent or null
TextAt(o, k) ==
  IF o.t = "obj" /\ k \in DOMAIN o.m /\ o.m[k].t = "str"
  THEN TextOf(o.m[k].lit) ELSE <<>>

\* member k of object o, {} when absent
ObjectAt(o, k) ==
  IF o.t = "obj" /\ k \in DOMAIN o.m THEN o.m[k] ELSE JObj(NoMembers)

FirstChoice(o) ==
  IF K_choices \in DOMAIN o.m /\ o.m[K_choices].e # <<>>
  THEN o.m[K_choices].e[1] ELSE JObj(NoMembers)

\* the seven fields of an object in the stated priority order, as text
FieldsInOrder(o) ==
  <<TextAt(ObjectAt(FirstChoice(o), K_delta), K_content),
    TextAt(ObjectAt(FirstChoice(o), K_message), K_content),
    TextAt(FirstChoice(o), K_text),
    TextAt(o, K_text), TextAt(o, K_content), TextAt(o, K_completion),
    TextAt(o, K_response)>>

RECURSIVE FirstNonEmpty(_, _)
FirstNonEmpty(fs, i) ==
  IF i > Len(fs) THEN <<>>
  ELSE IF fs[i] # <<>> THEN fs[i] ELSE FirstNonEmpty(fs, i + 1)

ShapeText(o) ==
  IF K_choices \in DOMAIN o.m THEN
    IF o.m[K_choices].e = <<>> THEN <<>>
    ELSE IF K_delta \in DOMAIN FirstChoice(o).m
      THEN TextAt(ObjectAt(FirstChoice(o), K_delta), K_content)
    ELSE IF K_message \in DOMAIN FirstChoice(o).m
      THEN TextAt(ObjectAt(FirstChoice(o), K_message), K_content)
    ELSE TextAt(FirstChoice(o), K_text)
  ELSE FirstNonEmpty(<<TextAt(o, K_text), TextAt(o, K_content),
                       TextAt(o, K_completion), TextAt(o, K_response)>>, 1)

InStream(p) == p \in {"connect", "check", "read", "finalize"}

\* C2: within one stream reply only grows: from one state to the next,
\* while the worker stays in the same stream, the earlier reply is a prefix
\* of the later one.
C2_AppendOnly ==
  [][(InStream(pc) /\ (InStream(pc') \/ pc' = "done")) =>
       IsPrefix(reply, reply')]_vars

\* a watchdog wakes from its sleep and finds the stream silent for longer
\* than the threshold with completion not signaled
TimeoutDetected ==
  /\ wdSleep' = wdSleep - 1
  /\ idle > HangThreshold
  /\ ~response_complete

NoticeCount(text) == Cardinality({i \in DOMAIN text : text[i] = HangNotice})

C4_NoChunkAfterStop == lateChunks = 0

\* C4 amended: after the stop flag is set at most one chunk is incorporated,
\* the one whose read was in progress when the flag was set; once the loop
\* test has seen the flag the worker reads nothing more and goes on to
\* finalization.
C4_AtMostTheReadInFlight ==
  /\ lateChunks <= (IF stopInRead THEN 1 ELSE 0)
  /\ (pc = "read" /\ stopping) => (stopInRead /\ lateChunks = 0)

\* a stream stopped during a read, whose chunk was incorporated, finalized
C4_Witness ==
  /\ pc = "done"
  /\ stopping /\ stopInRead
  /\ lateChunks = 1
  /\ returned # 0

\* C5: for one request at most one of the two finalization paths appends
\* the assistant reply to the history.
C5_SingleFinalization == Len(finalized) <= 1

\* C6: a request is sent with the stopping flag false, however the
\* previous one ended, and each of its streams starts with reply,
\* parse_buffer and partial_json empty and the completion flag false.
C6_FreshStreamState ==
  [][/\ requests' = requests + 1 => ~stopping'
     /\ (pc = "setup" /\ pc' = "connect") =>
          /\ reply' = <<>> /\ parse_buffer' = <<>> /\ partial_json' = <<>>
          /\ ~response_complete']_vars

\* C7: attempts are numbered below max_retries; the k-th failed attempt
\* with k < max_retries is followed by a wait of 2k seconds; a successful
\* attempt ends the request with no terminal message; the terminal message
\* is reported once, after max_retries failed attempts and max_retries - 1
\* waits, and ends the request.
C7_RetrySchedule ==
  /\ attempt < MaxRetries
  /\ Len(sleeps) = (IF pc = "backoff" THEN attempt + 1 ELSE attempt)
  /\ \A k \in DOMAIN sleeps : sleeps[k] = 2 * k
  /\ terminals <= 1
  /\ terminals = 1 =>
       (pc = "done" /\ attempt = MaxRetries - 1 /\ returned = 0)
  /\ returned # 0 => (terminals = 0 /\ lastFail = "none")
  /\ (pc = "done" /\ requests > 0) => (terminals = 1 \/ returned # 0)

\* all attempts failed: two waits, one terminal message
C7_Witness ==
  /\ pc = "done"
  /\ terminals = 1
  /\ sleeps = <<2, 4>>
  /\ attempt = MaxRetries - 1

\* C8 as stated: an attempt that fails with an HTTP error response is not
\* followed by a retry.
C8_NoRetryOnHTTPError == lastFail = "HTTPError" => pc # "backoff"

\* C8 amended: a URLError, a socket.error and an HTTPError each lead to the
\* wait and another attempt while attempts remain, and to the terminal
\* message after the last attempt; a response that is delivered without an
\* exception, whatever its payload, ends the request.
C8_CaughtKindsRetry ==
  /\ lastFail \in FailureKinds =>
       IF attempt < MaxRetries - 1
       THEN pc = "backoff" /\ terminals = 0
       ELSE pc = "done" /\ terminals = 1
  /\ returned # 0 => (pc = "done" /\ lastFail = "none")

\* an HTTPError on an attempt that is not the last: the worker waits
C8_Witness ==
  /\ lastFail = "HTTPError"
  /\ pc = "backoff"
  /\ attempt < MaxRetries - 1

\* C11: when the worker finalizes, after a read that returned no data or
\* after the loop test saw the cancellation flag, the reply it declares
\* complete is the one obtained by passing the pending partial line of
\* parse_buffer and then partial_json through extraction.
C11_FlushOnFinalize ==
  [][(pc = "finalize" /\ pc' = "done") =>
       reply' = EndOfStream(CurrentState).reply]_vars

\* C12: an object recovered from partial_json is extracted once and is gone
\* from the buffer: a further pass over the buffer finds nothing to add to
\* reply.
C12_RecoveredOnce == ProcessPartialJson(CurrentState).reply = reply

IsDone(l) == Strip(l.text) = DoneLine

\* the lines of a script that are not the [DONE] sentinel
WithoutDone(sc) == SelectSeq(sc, LAMBDA l : ~IsDone(l))

\* every [DONE] of the script starts a line of the body
DoneStartsLine(sc) ==
  \A i \in 2..Len(sc) :
    IsDone(sc[i]) => sc[i - 1].text[Len(sc[i - 1].text)] = NL

WholeState(text) == EndOfStream(FeedChunk(EmptyState, text))

\* C13: a 'data: [DONE]' line processed in any state leaves reply,
\* parse_buffer and partial_json as they are and raises nothing, and a
\* body ends with the reply and the partial_json of the same body without
\* its [DONE] lines.
C13_DoneIsInert ==
  /\ ProcessLine(CurrentState, DoneLine) = CurrentState
  /\ FeedChunk([CurrentState EXCEPT !.parse_buffer = <<>>],
               DoneLine \o <<NL>>)
       = [CurrentState EXCEPT !.parse_buffer = <<>>]
  /\ (pc = "done" /\ DoneStartsLine(script)) =>
       /\ reply = WholeState(Flatten(WithoutDone(script))).reply
       /\ partial_json = WholeState(Flatten(WithoutDone(script))).partial_json

\* a body with text and with a [DONE] line that is not its last line
C13_Witness ==
  /\ pc = "done"
  /\ Len(script) = 2
  /\ IsDone(script[1])
  /\ reply # <<>>
  /\ cutInLine

\* the JSON payload of a line: the line stripped, without its 'data: '
PayloadOf(line) ==
  IF StartsWith(Strip(line), DataPrefix)
  THEN Drop(Strip(line), Len(DataPrefix)) ELSE Strip(line)

\* a line _process_line hands to json.loads, which rejects it
IsMalformed(line) ==
  /\ StartsWith(Strip(line), DataPrefix) \/ StartsWith(Strip(line), <<LB>>)
  /\ Strip(line) # DoneLine
  /\ ~JsonLoads(PayloadOf(line)).ok

MalformedLines == {l.text : l \in {x \in Lines : IsMalformed(x.text)}}

C15_SystemFirst == history # <<>> /\ history[1].role = "system"

\* a resumed or loaded session in a window with a knowledge file, after
\* the last command of the run
C15_Witness ==
  /\ ops = MaxOps
  /\ knowledge
  /\ current_session_id # NoSessionId
  /\ Len(history) > 2
  /\ history[2].content = <<KnowledgeNote>>

\* the ids of h, in the order of h
Ids(h) == SelectSeq([i \in 1..Len(h) |-> h[i].id], LAMBDA n : n # 0)

\* C16: the ids of the messages of the history that carry one grow
\* strictly along the history, and none of them exceeds the counter the
\* next id is taken from.
C16_IdsIncrease ==
  /\ \A i, j \in 1..Len(Ids(history)) :
       i < j => Ids(history)[i] < Ids(history)[j]
  /\ \A i \in 1..Len(Ids(history)) : Ids(history)[i] <= message_id

\* C17: every label of the label map maps to the id of a message of the
\* history that carries this label, the last of the messages that do.
C17_LabelsSound ==
  \A l \in DOMAIN labels :
    \E i \in 1..Len(history) :
      /\ history[i].label = l
      /\ history[i].id = labels[l]
      /\ \A j \in (i + 1)..Len(history) : history[j].label # l

\* the directory the controller saves to and loads from
SessionsDir == GetSessionsDir(TRUE)

\* role, content and id of the messages of h
Triples(h) == [i \in 1..Len(h) |-> <<h[i].role, h[i].content, h[i].id>>]

\* C18 as stated: loading a stored session gives the controller a history
\* with the role, content and id, position by position, of the history
\* that was saved under this id.
C18_RoundTrip ==
  \A id \in DOMAIN files[SessionsDir] :
    Triples(load_session(Controller, id).history)
      = Triples(files[SessionsDir][id].written)

\* C18 amended: the record SessionManager.load_session returns holds the
\* saved history message by message; the history the controller has
\* after loading it has the same length, the same messages at every
\* position after the first, and at the first position the message that
\* was saved with the system message of the time of the load as content.
C18_RoundTripRefreshed ==
  \A id \in DOMAIN files[SessionsDir] :
    LET w == files[SessionsDir][id].written
        h == load_session(Controller, id).history
    IN
    /\ LoadSession(files, id, TRUE).data.history = w
    /\ Len(h) = Len(w)
    /\ \A i \in 2..Len(w) : h[i] = w[i]
    /\ h[1] = [w[1] EXCEPT !.content = GetSystemMessage]

\* a session was saved, the system message was edited, the session was
\* loaded: the history is the saved one but for the content of its head
C18_Witness ==
  /\ SessionExists(files, current_session_id, TRUE)
  /\ LET w == files[SessionsDir][current_session_id].written IN
     /\ Len(history) = Len(w)
     /\ Len(w) > 1
     /\ \A i \in 2..Len(w) : history[i] = w[i]
     /\ history[1].content = GetSystemMessage
     /\ history[1].content # w[1].content

\* C19: delete_session returns True for a stored id and removes just this
\* file; for an id that is not stored, as after a first delete, it
\* returns False and leaves the files as they are; after a delete,
\* load_session of the id finds nothing.
C19_DeleteIdempotent ==
  \A id \in SessionIds :
    LET r == DeleteSession(files, id, TRUE)
        again == DeleteSession(r.files, id, TRUE)
    IN
    /\ r.found = (id \in DOMAIN files[SessionsDir])
    /\ DOMAIN r.files[SessionsDir] = DOMAIN files[SessionsDir] \ {id}
    /\ \A d \in Dirs : \A k \in DOMAIN r.files[d] :
         r.files[d][k] = files[d][k]
    /\ \A d \in Dirs \ {SessionsDir} : DOMAIN r.files[d] = DOMAIN files[d]
    /\ ~r.found => r.files = files
    /\ ~again.found
    /\ again.files = r.files
    /\ ~LoadSession(r.files, id, TRUE).found

\* the session saved last has been deleted
C19_Witness ==
  /\ last_session_id # NoSessionId
  /\ ~SessionExists(files, last_session_id, TRUE)

\* C20: a step that leaves a session file in place, whichever save path
\* rewrites it, keeps its created_at and does not move its updated_at back.
C20_CreatedAtKept ==
  [][\A d \in Dirs :
       \A id \in DOMAIN files[d] \cap DOMAIN files'[d] :
         /\ LoadSessionText(files'[d][id].text).created_at
              = LoadSessionText(files[d][id].text).created_at
         /\ LoadSessionText(files'[d][id].text).updated_at
              >= LoadSessionText(files[d][id].text).updated_at]_vars

\* C21: no text that one thread has appended to reply is overwritten or
\* lost by another: a step of the timeout handler on the main thread, which
\* stores to reply, keeps everything reply held just before the store.
C21_NoLostAppend ==
  [][(mainPc = "hang" /\ mainPc' = "idle") => IsPrefix(reply, reply')]_vars

\* a _stream_watchdog thread is alive
WatchdogAlive == wdTest > 0 \/ wdSleep > 0

\* the request is over: the worker thread has returned and the main thread
\* has no timeout handler to run
RequestAtRest == pc = "done" /\ mainPc = "idle" /\ pendingHang = 0

\* C22: once the request is over with its completion signaled, no watchdog
\* is left watching: either every watchdog thread has exited or
\* response_watchdog_active is off, so that each exits at its next loop test
\* without doing anything more.
C22_WatchdogReleased ==
  (RequestAtRest /\ response_complete /\ WatchdogAlive)
    => ~response_watchdog_active

\* the step in which the worker ends a request after its read loop: the
\* finalization of a stream, or the non-streaming handler
EndsRequest ==
  /\ pc = "finalize" \/ (pc = "setup" /\ ~stream)
  /\ pc' = "done"

ArgGiven == executed[1].args[<<"arg">>]

\* the request whose reply is MultilineReply(content) has been finalized
MultilineDone(content) ==
  /\ pc = "done"
  /\ reply = MultilineReply(content)
  /\ Len(executed) = 1

Core(content) ==
  LET full == {i \in DOMAIN content : content[i] # <<>>} IN
  IF full = {} THEN <<>>
  ELSE SubSeq(content, CHOOSE i \in full : \A j \in full : i <= j,
                       CHOOSE i \in full : \A j \in full : i >= j)

C25_RecordsHaveCommand ==
  pc = "done" =>
    \A i \in DOMAIN parse_function_calls(reply) :
      /\ "command" \in DOMAIN parse_function_calls(reply)[i]
      /\ "args" \in DOMAIN parse_function_calls(reply)[i]

\* the call names no tool that is available, or names the tool that raises
Fails(call) == "command" \notin DOMAIN call \/ call.command # <<"run">>

\* the results of the calls executed for the request
Results == [i \in DOMAIN executed |-> execute_function_call(executed[i])]

\* C26: when the request whose reply carries tool calls is over, the worker
\* has returned normally from its finalization, every call of the reply
\* has been executed, in order, a call of an unknown command or of a tool
\* that raises has a result with success false and an error text, the
\* other calls have a result with success true, and the results are the
\* content of the system message that follows the assistant reply at the
\* end of the history.
C26_FailuresAreResults ==
  (pc = "done" /\ parse_function_calls(reply) # <<>>) =>
    /\ returned # 0 /\ response_complete /\ finalized = <<"worker">>
    /\ executed = parse_function_calls(reply)
    /\ \A i \in DOMAIN executed :
         /\ Results[i].success = ~Fails(executed[i])
         /\ Fails(executed[i]) => Results[i].error # <<>>
    /\ history[Len(history) - 1].role = "assistant"
    /\ history[Len(history)].role = "system"
    /\ history[Len(history)].content = ResultsText(Results)

\* the reply called the tool that raises and then the tool "run": both
\* were executed and the history ends with the two results
C26_Witness ==
  /\ pc = "done"
  /\ reply = Block(<<CommandLine("boom")>>)
               \o Block(<<CommandLine("run"), ArgLine>>)
  /\ Len(executed) = 2
  /\ history[Len(history)].content =
       <<NL, NL, "Function execution results:", NL,
         "error:", "boom failed", "ok:", "ok">>

\* C27: with a configuration error (no entry for the model, no API key, no
\* URL) a send starts nothing: the worker thread is never started, no
\* attempt connects or reads, no watchdog runs, nothing is retried and no
\* failure is reported.
C27_ConfigErrorAborts ==
  config # "ok" =>
    /\ pc = "idle" /\ attempt = 0 /\ returned = 0
    /\ body = <<>> /\ reply = <<>>
    /\ wdTest = 0 /\ wdSleep = 0 /\ ~response_watchdog_active
    /\ sleeps = <<>> /\ terminals = 0 /\ lastFail = "none"

\* a message was sent while the entry of the model had no API key
C27_Witness ==
  /\ config = "no_key"
  /\ requests = 1
  /\ history[Len(history)].role = "user"

\* the names of at most MaxName characters
NamesUpTo == SeqsUpTo(NameChars, MaxName) \ {NoName}

\* C28: the id derived from a name has only word characters and '-', is
\* lower-case, and is the id derived from itself; and /save:name with
\* something to save writes the session file of exactly that id, with the
\* history as it is, and makes it the current and the last session.
C28_DerivedIdSafeAndStable ==
  /\ [](\A name \in NamesUpTo :
          LET id == GenerateSessionId(name, now) IN
          /\ Len(id) = Len(name)
          /\ \A i \in DOMAIN id :
               id[i] \in WordChars \cup {"-"} /\ Lower(id[i]) = id[i]
          /\ GenerateSessionId(id, now) = id)
  /\ [][\A name \in Names :
          (OnDoneSave(name) /\ Len(history) > 1) =>
            LET id == GenerateSessionId(name, now) IN
            /\ id \in DOMAIN files'[SessionsDir]
            /\ files'[SessionsDir][id].written = history
            /\ LoadSessionText(files'[SessionsDir][id].text).id = id
            /\ \A d \in Dirs : DOMAIN files'[d] \ {id} = DOMAIN files[d] \ {id}
            /\ current_session_id' = id
            /\ last_session_id' = id]_vars

\* the session was saved under the name "S 1": its file has the id "s_1"
C28_Witness ==
  /\ current_session_id = <<"s", "_", "1">>
  /\ SessionExists(files, <<"s", "_", "1">>, TRUE)
  /\ Len(history) > 1

\* the files of a directory that json.load reads
Readable(fs, dir) ==
  {i \in DOMAIN fs[dir] : JsonLoads(fs[dir][i].text).ok}

Descending(sessions) ==
  \A i, j \in DOMAIN sessions :
    i < j => sessions[i].updated_at >= sessions[j].updated_at

\* C29: whatever order the directory is read in, listing the sessions
\* does not fail and gives exactly one entry for every file that can be
\* read, with the file's id, time and message count, most recently
\* updated first; a file that cannot be read has no entry
C29_ListedReadableDescending ==
  \A window \in BOOLEAN :
    LET dir == GetSessionsDir(window)
        readable == Readable(files, dir)
    IN
    \A r \in list_sessions(files, window) :
      /\ ~r.raised
      /\ Len(r.sessions) = Cardinality(readable)
      /\ \A i \in readable :
           LET d == LoadSessionText(files[dir][i].text) IN
           \E k \in DOMAIN r.sessions :
             /\ r.sessions[k].id = i
             /\ r.sessions[k].updated_at = d.updated_at
             /\ r.sessions[k].message_count = Len(d.history)
      /\ \A k \in DOMAIN r.sessions : r.sessions[k].id # LeftoverId
      /\ Descending(r.sessions)

\* two sessions saved at different times lie beside an unfinished file,
\* and the directory can be read with the older session first
C29_Witness ==
  LET dir == GetSessionsDir(TRUE) IN
  /\ LeftoverId \in DOMAIN files[dir]
  /\ Cardinality(Readable(files, dir)) >= 2
  /\ \E order \in ListDir(files, dir) :
       LET r == ListSessionsIn(files, dir, order) IN
       /\ Len(r.sessions) = 2
       /\ r.sessions[1].updated_at > r.sessions[2].updated_at
       /\ \E i, j \in DOMAIN order :
            /\ i < j
            /\ order[i] = r.sessions[2].id
            /\ order[j] = r.sessions[1].id

\* the step in which _handle_non_streaming_response_sync returns
NonStreamingReturns ==
  /\ ~stream
  /\ pc = "setup"
  /\ pc' = "done"
  /\ returned' = attempt + 1

\* history' is history with one assistant message for the reply x, and
\* behind it nothing but the system message of the tool results
OneAssistantAppended(x) ==
  /\ Len(history') > Len(history)
  /\ SubSeq(history', 1, Len(history)) = history
  /\ history'[Len(history) + 1].role = "assistant"
  /\ history'[Len(history) + 1].content = CleanReply(x)
  /\ \A i \in Len(history) + 2..Len(history') : history'[i].role = "system"

\* C30: the reply taken from the body {"choices":[{"message":{"content":
\* X}}]} is X and the reply taken from a body with an empty choices list
\* is the placeholder; when the non-streaming handler returns, either it
\* has displayed one such X, made X the reply and appended exactly one
\* assistant message for it to the history, or it has displayed the
\* placeholder and left the history as it was
C30_NonStreamingReplyShown ==
  /\ [](/\ \A lit \in ContentLits :
             NonStreamingReply(JsonLoads(BodyWith(lit)).v) = TextOf(lit)
        /\ NonStreamingReply(JsonLoads(EmptyChoices).v) = NoReply)
  /\ [][NonStreamingReturns =>
          \/ \E lit \in ContentLits :
               /\ displayed' = Append(displayed, TextOf(lit))
               /\ reply' = TextOf(lit)
               /\ OneAssistantAppended(TextOf(lit))
          \/ /\ displayed' = Append(displayed, NoReply)
             /\ history' = history]_vars

\* a non-streaming request was answered with the reply "a": it was
\* displayed, and it is in the history once, behind the user's message
C30_Witness ==
  /\ ~stream
  /\ pc = "done"
  /\ returned > 0
  /\ displayed = <<TextOf(S_a)>>
  /\ reply = TextOf(S_a)
  /\ Len(SelectSeq(history, LAMBDA m : m.role = "assistant")) = 1
  /\ history[Len(history)].content = TextOf(S_a)

\* target is the decimal form of the id of a message of the history
NamesMessageId(target) ==
  /\ IsInt(target)
  /\ \E i \in DOMAIN history :
       history[i].id # 0 /\ history[i].id = IntOf(target)

\* target is a label of the label map, and a message of the history
\* carries it under the id the map gives
NamesLabel(target) ==
  /\ target \in DOMAIN labels
  /\ \E i \in DOMAIN history :
       history[i].label = target /\ history[i].id = labels[target]

\* the labels carried by the messages of h
LabelsIn(h) == {h[i].label : i \in DOMAIN h} \ {NoLabel}

\* C35: /rewind:target, for a target that is the label or the id of a
\* message of the history, leaves the prefix of the history
\* that ends with the message the target names (the message that carries
\* the label, or the message of that id), its messages unchanged and in
\* order, and a label map that holds exactly the labels of the messages
\* kept, each with the id of a kept message that carries it
C35_RewindKeepsPrefix ==
  \A target \in RewindTargets :
    (NamesLabel(target) \/ NamesMessageId(target)) =>
      LET c == rewind_to(Controller, target) IN
      \E n \in DOMAIN history :
        /\ IF target \in DOMAIN labels
           THEN history[n].label = target /\ history[n].id = labels[target]
           ELSE history[n].id = IntOf(target)
        /\ c.history = SubSeq(history, 1, n)
        /\ DOMAIN c.labels = LabelsIn(c.history)
        /\ \A l \in DOMAIN c.labels :
             \E i \in 1..n : history[i].label = l /\ history[i].id = c.labels[l]

\* C36: /rewind:target, for a target that is not a label of the label map
\* and is not the id of a message of the history (the id of no message, or
\* no integer at all), leaves the history, the label map, the message-id
\* counter, the session id and the stored sessions as they were
C36_UnknownTargetChangesNothing ==
  \A target \in RewindTargets :
    (target \notin DOMAIN labels /\ ~NamesMessageId(target)) =>
      rewind_to(Controller, target) = Controller

\* a labelled conversation with a stored session, in which "x" and an
\* absent id can be asked for
C36_Witness ==
  /\ DOMAIN labels # {}
  /\ Len(history) > 1
  /\ current_session_id # NoSessionId
  /\ SessionExists(files, current_session_id, TRUE)
  /\ \E target \in RewindTargets :
       IsInt(target) /\ target \notin DOMAIN labels /\ ~NamesMessageId(target)
  /\ ~IsInt("x") /\ "x" \notin DOMAIN labels

\* the history of a new conversation: the system message, and behind it
\* the knowledge-base message when there is a knowledge file
FreshHistory ==
  <<Message("system", GetSystemMessage, 0)>> \o
  (IF knowledge THEN <<Message("assistant", <<KnowledgeNote>>, 0)>> ELSE <<>>)

\* C39: after /new or /new:name the history is the system message (and the
\* knowledge-base message when there is one), the message-id counter is 0,
\* the label map and the attached files are empty and no stored session
\* is removed; when the conversation had a session id and more than one
\* message, the file of this id holds the history as it was before /new
C39_NewSavesThenResets ==
  \A name \in Names \cup {NoName} :
    LET c == new_session(Controller, name) IN
    /\ c.history = FreshHistory
    /\ c.message_id = 0
    /\ c.labels = NoLabels
    /\ c.added_files = {}
    /\ \A d \in Dirs : DOMAIN files[d] \subseteq DOMAIN c.files[d]
    /\ (Len(history) > 1 /\ current_session_id # NoSessionId) =>
         /\ SessionExists(c.files, current_session_id, TRUE)
         /\ c.files[SessionsDir][current_session_id].written = history
         /\ Triples(LoadSession(c.files, current_session_id, TRUE).data.history)
              = Triples(history)

\* a conversation with a session id, labels and attached files whose
\* stored file does not hold the present history yet
C39_Witness ==
  /\ Len(history) > 2
  /\ current_session_id # NoSessionId
  /\ message_id > 0
  /\ DOMAIN labels # {}
  /\ \/ ~SessionExists(files, current_session_id, TRUE)
     \/ files[SessionsDir][current_session_id].written # history

\* the read loop of a streaming attempt ended, the attempt returned from
\* its finalization and nothing of the request is left to run
StreamAttemptOver == RequestAtRest /\ stream /\ returned > 0

\* C32: a streaming attempt whose read loop ended (the stream was closed or
\* the stop flag was seen) has marked the response complete by the time the
\* request is at rest, whether or not any reply text was received.
C32_EndedLoopCompletes == StreamAttemptOver => response_complete

(***************************************************************************)
(* Output view: the callbacks update_view and _ensure_complete_update,     *)
(* run by the main thread while the worker streams                         *)
(***************************************************************************)
\* a scheduled update_view starts: the view is valid, and under
\* content_lock the text behind the cursor and the length are read
UpdateViewBegin(f) ==
  /\ mainPc = "idle"
  /\ IF f THEN finals > 0 /\ finals' = finals - 1 /\ polls' = polls
          ELSE polls > 0 /\ polls' = polls - 1 /\ finals' = finals
  /\ new_content' = NewContent(reply, previous_reply_length)
  /\ current_length' = Len(reply)
  /\ final' = f
  /\ mainPc' = "update"
  /\ UNCHANGED <<asmVars, stopping, response_complete,
                 response_watchdog_active, idle, history, message_id,
                 threadVars, watchdogVars, pendingHang, hangLocal,
                 retryVars, finalized, executed, displayed,
                 previous_reply_length, timer_running, ensures, appended,
                 lateChunks, stopInRead, requests, stream, runVars>>

\* update_view from the append on: the text goes to the view, the cursor
\* is stored, and the poll is rescheduled unless the call is the final one
UpdateViewFinish ==
  /\ mainPc = "update"
  /\ appended' = appended \o new_content
  /\ previous_reply_length' =
       IF new_content # <<>> THEN current_length ELSE previous_reply_length
  /\ IF final
     THEN timer_running' = FALSE /\ polls' = polls
     ELSE timer_running' = TRUE /\ polls' = polls + 1
  /\ mainPc' = "idle"
  /\ new_content' = <<>>
  /\ current_length' = 0
  /\ final' = FALSE
  /\ UNCHANGED <<asmVars, stopping, response_complete,
                 response_watchdog_active, idle, history, message_id,
                 threadVars, watchdogVars, pendingHang, hangLocal,
                 retryVars, finalized, executed, displayed, flushVars,
                 lateChunks, stopInRead, requests, stream, runVars>>

\* a scheduled _ensure_complete_update runs
EnsureCompleteUpdate ==
  /\ mainPc = "idle"
  /\ ensures > 0
  /\ ensures' = ensures - 1
  /\ appended' = appended \o NewContent(reply, previous_reply_length)
  /\ previous_reply_length' =
       IF NewContent(reply, previous_reply_length) # <<>>
       THEN Len(reply) ELSE previous_reply_length
  /\ UNCHANGED <<asmVars, stopping, response_complete,
                 response_watchdog_active, idle, history, message_id,
                 threadVars, watchdogVars, pendingHang, mainVars,
                 retryVars, finalized, executed, displayed, timer_running,
                 polls, finals, new_content, current_length, final,
                 lateChunks, stopInRead, requests, stream, runVars>>

ViewNext ==
  \/ OnDoneMessage(TRUE)
  \/ WorkerSetup
  \/ WorkerConnect
  \/ WorkerCheck
  \/ WorkerRead
  \/ WorkerFinalize
  \/ WorkerBackoff
  \/ \E f \in BOOLEAN : UpdateViewBegin(f)
  \/ UpdateViewFinish
  \/ EnsureCompleteUpdate

SpecView == Init /\ [][ViewNext]_vars

\* the cursor is a position of the reply
CursorInReply == previous_reply_length <= Len(reply)

\* C33: during streaming, with retries, the cursor previous_reply_length
\* never exceeds the length of reply, and the reply text appended to the
\* view is the prefix of reply that ends at the cursor: no character was
\* displayed twice and none was skipped.
C33_ViewFollowsReply ==
  /\ CursorInReply
  /\ appended = SubSeq(reply, 1, previous_reply_length)

\* the worker finalized a reply, which scheduled the final flush, and the
\* flush has run to its end
FinalFlushRan ==
  pc = "done" /\ response_complete /\ finals = 0 /\ mainPc = "idle"

\* C34: at most one periodic update_view poll is pending at any time, and
\* once the final flush update_view(final=True) has run, no periodic poll
\* remains scheduled.
C34_OnePollNoneAfterFlush ==
  /\ polls <= 1
  /\ FinalFlushRan => polls = 0

(***************************************************************************)
(* Concurrent requests: on_done shows the input panel again right after    *)
(* send_message_with_retry has started the worker thread, so that a second *)
(* message starts a second thread while the first one streams.  Every      *)
(* thread runs _send_message_thread on the same controller object.         *)
(***************************************************************************)
\* requests in flight at once
MaxThreads == 2

\* the bodies the server answers the w-th request with
PairResponses(w) ==
  IF w = 1
  THEN { <<DeltaFrame(S_a)>>, <<DeltaFrame(S_a), DeltaFrame(S_a)>> }
  ELSE { <<DeltaFrame(S_b)>>, <<DeltaFrame(S_b), DeltaFrame(S_c)>> }

\* the reply the read loop and the finalization assemble from the chunks
\* of one response when nothing else writes the stream state
RECURSIVE ReplyAlone(_, _)
ReplyAlone(st, chunks) ==
  IF chunks = <<>> THEN EndOfStream(st).reply
  ELSE ReplyAlone(FeedChunk(st, Head(chunks)), Tail(chunks))

\* a worker thread: where it is, what its response has still to deliver,
\* the chunks of its response, the assistant messages it appended
Thread(p, b, r, a) == [pc |-> p, body |-> b, response |-> r, added |-> a]

\* on_done with a regular message while earlier requests may be streaming
PairSend ==
  /\ mainPc = "idle"
  /\ config = "ok"
  /\ Len(threads) < MaxThreads
  /\ message_id' = message_id + 1
  /\ history' = Append(history, Message("user", <<"msg">>, message_id + 1))
  /\ threads' = Append(threads, Thread("setup", <<>>, <<>>, <<>>))
  /\ UNCHANGED <<asmVars, stopping, response_complete,
                 response_watchdog_active, idle, threadVars, watchdogVars,
                 pendingHang, mainVars, ghostVars, requests, stream,
                 scriptVars, runnerVars, sessVars>>

\* setup_streaming and _stream_response_sync up to the start of the
\* watchdog thread, in thread w
PairSetup(w) ==
  /\ threads[w].pc = "setup"
  /\ reply' = <<>>
  /\ parse_buffer' = <<>>
  /\ partial_json' = <<>>
  /\ response_complete' = FALSE
  /\ idle' = 0
  /\ response_watchdog_active' = TRUE
  /\ wdTest' = wdTest + 1
  /\ timer_running' = FALSE
  /\ previous_reply_length' = 0
  /\ threads' = [threads EXCEPT ![w].pc = "connect"]
  /\ UNCHANGED <<stopping, history, message_id, threadVars, wdSleep,
                 pendingHang, mainVars, retryVars, finalized, executed,
                 displayed, polls, flushVars, updateVars, lateChunks,
                 stopInRead, requests, stream, scriptVars, runnerVars, sessVars>>

\* urlopen in thread w: the response of its own request
PairConnect(w) ==
  /\ threads[w].pc = "connect"
  /\ \E r \in PairResponses(w) :
       threads' = [threads EXCEPT ![w] = Thread("read", r, r, <<>>)]
  /\ parse_buffer' = <<>>
  /\ UNCHANGED <<reply, partial_json, stopping, response_complete,
                 response_watchdog_active, idle, history, message_id,
                 threadVars, watchdogVars, pendingHang, mainVars, ghostVars,
                 requests, stream, scriptVars, runnerVars, sessVars>>

\* one iteration of the read loop in thread w
PairRead(w) ==
  /\ threads[w].pc = "read"
  /\ IF stopping
     THEN /\ threads' = [threads EXCEPT ![w].pc = "finalize"]
          /\ UNCHANGED <<asmVars, idle, timer_running, polls>>
     ELSE /\ idle' = 0
          /\ IF threads[w].body # <<>>
             THEN /\ \E st \in {FeedChunk(CurrentState,
                                          Head(threads[w].body))} :
                     /\ reply' = st.reply
                     /\ parse_buffer' = st.parse_buffer
                     /\ partial_json' = st.partial_json
                  /\ threads' = [threads EXCEPT ![w].body = Tail(@)]
                  /\ polls' = IF timer_running THEN polls ELSE polls + 1
                  /\ timer_running' = TRUE
             ELSE /\ \E st \in {ProcessBuffer(CurrentState, TRUE)} :
                     /\ reply' = st.reply
                     /\ parse_buffer' = st.parse_buffer
                     /\ partial_json' = st.partial_json
                  /\ threads' = [threads EXCEPT ![w].pc = "finalize"]
                  /\ UNCHANGED <<timer_running, polls>>
  /\ UNCHANGED <<stopping, response_complete, response_watchdog_active,
                 history, message_id, threadVars, watchdogVars, pendingHang,
                 mainVars, retryVars, finalized, executed, displayed,
                 previous_reply_length, flushVars, updateVars, lateChunks,
                 stopInRead, requests, stream, scriptVars, runnerVars, sessVars>>

\* _stream_response_sync after the loop, in thread w
PairFinalize(w) ==
  /\ threads[w].pc = "finalize"
  /\ response_watchdog_active' = FALSE
  /\ \E st \in {ProcessPartialJson(CurrentState)} :
     \E function_results \in {process_response_with_functions(st.reply)} :
     /\ reply' = st.reply
     /\ partial_json' = st.partial_json
     /\ IF st.exc \/ st.reply = <<>> \/ Raises(function_results)
        THEN /\ UNCHANGED <<response_complete, history, message_id, labels,
                            added_files, storeVars, finalized, flushVars>>
             /\ threads' = [threads EXCEPT ![w].pc = "done"]
        ELSE /\ response_complete' = TRUE
             /\ Becomes(auto_save_session(
                  [Controller EXCEPT !.history =
                     AttachResults(
                       Append(@, Message("assistant",
                                         CleanReply(st.reply), 0)),
                       function_results)]))
             /\ finalized' = Append(finalized, "worker")
             /\ finals' = finals + 1
             /\ ensures' = ensures + 1
             /\ threads' = [threads EXCEPT
                              ![w].pc = "done",
                              ![w].added = Append(@, CleanReply(st.reply))]
     /\ executed' = IF st.exc \/ st.reply = <<>> THEN executed
                    ELSE executed \o Executed(st.reply, function_results)
  /\ UNCHANGED <<parse_buffer, stopping, idle, threadVars, watchdogVars,
                 pendingHang, mainVars, retryVars, displayed, cursorVars,
                 updateVars, lateChunks, stopInRead, requests, stream,
                 scriptVars, runnerVars, auto_resume_attempted, envVars,
                 ops>>

PairNext ==
  \/ PairSend
  \/ \E w \in DOMAIN threads :
       PairSetup(w) \/ PairConnect(w) \/ PairRead(w) \/ PairFinalize(w)

SpecPair == Init /\ [][PairNext]_vars

\* the reply of thread w's own response
OwnReply(w) == CleanReply(ReplyAlone(StreamState(<<>>, <<>>, <<>>),
                                     threads[w].response))

\* C31: requests in flight at once do not interfere: a worker that has
\* returned appended exactly one assistant message, and this message is
\* the reply assembled from the content of its own response only.
C31_OwnReplyEach ==
  \A w \in DOMAIN threads :
    threads[w].pc = "done" => threads[w].added = <<OwnReply(w)>>

(***************************************************************************)
(* Scripts (ScriptRunner): a loaded script is a list of steps that         *)
(* execute_next_step runs one after the other                              *)
(***************************************************************************)
\* steps of a branch of a condition, at most
MaxBranch == 2
\* calls of execute_next_step inside one another before the interpreter
\* raises RecursionError
RecursionLimit == 4

\* a step as _parse_steps builds it; `test` is what eval gives for the
\* condition's expression
Step(type, name, system, test, if_true, if_false) ==
  [type |-> type, name |-> name, system |-> system, test |-> test,
   if_true |-> if_true, if_false |-> if_false]

PromptStep(name, system) == Step("prompt", name, system, FALSE, <<>>, <<>>)

ConditionStep(name, test, if_true, if_false) ==
  Step("condition", name, FALSE, test, if_true, if_false)

\* the prompts of a branch, by position
BranchNames == <<"A", "B", "D", "E">>

\* a branch of n prompt steps, the first one a system prompt or not
Branch(n, system) ==
  [i \in 1..n |-> PromptStep(BranchNames[i], system /\ i = 1)]

\* the script files: a condition with its branches and a prompt behind it,
\* and two prompts
ChatScripts ==
  { <<ConditionStep("C", test, Branch(n, s), Branch(m, FALSE)),
      PromptStep("X", FALSE)>> :
      test \in BOOLEAN, n \in 0..MaxBranch, m \in 0..1, s \in BOOLEAN }
  \cup { <<PromptStep("A", s), PromptStep("X", FALSE)>> : s \in BOOLEAN }

\* self.current_script = None
NoScript == [active |-> FALSE, steps |-> <<>>]

\* the runner and what it changes of the chat: `sent` tells that
\* send_message_with_retry was called, `raised` that an exception is
\* on its way up
Runner(steps, step, h, r) ==
  [active |-> TRUE, steps |-> steps, current_step |-> step, history |-> h,
   ran |-> r, sent |-> FALSE, raised |-> FALSE]

\* _inject_steps: current_steps[self.current_step:self.current_step] = steps
InjectSteps(current_steps, at, steps) ==
  SubSeq(current_steps, 1, at) \o steps
    \o SubSeq(current_steps, at + 1, Len(current_steps))

\* execute_next_step with _execute_prompt_step and
\* _execute_condition_step, at call depth `depth`
RECURSIVE execute_next_step(_, _)
execute_next_step(r, depth) ==
  IF depth > RecursionLimit THEN [r EXCEPT !.raised = TRUE]
  ELSE IF r.current_step >= Len(r.steps) THEN [r EXCEPT !.active = FALSE]
  ELSE
    LET step == r.steps[r.current_step + 1]
        done == [r EXCEPT !.ran = Append(@, step.name)]
    IN
    IF step.type = "prompt" THEN
      IF step.system
      THEN execute_next_step(
             [done EXCEPT !.history =
                            Append(@, Message("system", <<step.name>>, 0)),
                          !.current_step = @ + 1],
             depth + 1)
      ELSE [done EXCEPT !.history =
                          Append(@, Message("user", <<step.name>>, 0)),
                        !.sent = TRUE]
    ELSE
      LET chosen == IF step.test THEN step.if_true ELSE step.if_false
          after == execute_next_step(
                     [done EXCEPT !.steps = InjectSteps(@, r.current_step,
                                                        chosen),
                                  !.current_step = @ + 1],
                     depth + 1)
      IN IF after.raised
         THEN [after EXCEPT !.raised = FALSE, !.active = FALSE]
         ELSE after

\* the runner as it is
ThisRunner ==
  Runner(current_script.steps, current_step, history, ran)

\* the state a call of execute_next_step from the main thread leaves
RunnerBecomes(r) ==
  /\ current_script' = IF r.active
                       THEN [active |-> TRUE, steps |-> r.steps]
                       ELSE NoScript
  /\ current_step' = r.current_step
  /\ ran' = r.ran
  /\ history' = r.history
  /\ IF r.sent
     THEN /\ \E reply_text \in Replies : reply' = reply_text
          /\ response_complete' = FALSE
          /\ finalized' = <<>>
          /\ executed' = <<>>
          /\ displayed' = <<>>
          /\ pc' = "finalize"
     ELSE UNCHANGED <<reply, response_complete, finalized, executed,
                      displayed, pc>>

\* what the script commands leave alone
runnerRest ==
  <<parse_buffer, partial_json, stopping, response_watchdog_active, idle,
    attempt, body, watchdogVars, pendingHang, mainVars, retryVars,
    lateChunks, stopInRead, requests, stream, scriptVars, threads, viewVars,
    message_id, labels, added_files, storeVars, auto_resume_attempted,
    envVars>>

\* run(command='run_script'): load_script and execute_script
RunScript ==
  /\ PanelOpen
  /\ pc \in {"idle", "done"}
  /\ loaded = <<>>
  /\ \E steps \in ChatScripts :
       /\ loaded' = steps
       /\ \E r \in {execute_next_step(Runner(steps, 0, history, <<>>), 1)} :
            RunnerBecomes(r)
  /\ UNCHANGED <<runnerRest, ops>>

\* on_done('/continue')
OnDoneContinue ==
  /\ PanelOpen
  /\ pc \in {"idle", "done"}
  /\ Command
  /\ IF current_script.active
     THEN \E r \in {execute_next_step(ThisRunner, 1)} : RunnerBecomes(r)
     ELSE UNCHANGED <<current_script, current_step, ran, history, reply,
                      response_complete, finalized, executed, displayed, pc>>
  /\ UNCHANGED <<runnerRest, loaded>>

ScriptInit ==
  /\ PlainWindow
  /\ config = "ok"
  /\ ControllerInit
  /\ script = <<>>
  /\ rest = <<>>
  /\ cutInLine = FALSE
  /\ data = JNull

ScriptNext == RunScript \/ OnDoneContinue \/ WorkerFinalize

SpecScript == ScriptInit /\ [][ScriptNext]_vars

\* the names of the steps in the order a script is to execute them: a
\* condition, then the steps of the branch its test chooses, then what
\* follows the condition
RECURSIVE ExpectedRun(_)
ExpectedRun(steps) ==
  IF steps = <<>> THEN <<>>
  ELSE LET s == Head(steps) IN
       <<s.name>>
         \o (IF s.type = "condition"
             THEN ExpectedRun(IF s.test THEN s.if_true ELSE s.if_false)
             ELSE <<>>)
         \o ExpectedRun(Tail(steps))

\* C37: a script runs its steps in order: after a condition step the steps
\* of the chosen branch, each once and in their declared order, then the
\* step that followed the condition; the condition is evaluated once.  As
\* long as no /continue was given, the steps executed so far are an
\* initial part of that order.
C37_BranchOnceInOrder ==
  ops = 0 => IsPrefix(ran, ExpectedRun(loaded))

\* the request of a script's prompt step has completed with a reply
ScriptResponseComplete ==
  /\ loaded # <<>>
  /\ ran # <<>>
  /\ pc = "done"
  /\ response_complete
  /\ mainPc = "idle"

\* the runner's current step is still the prompt that was sent last
AtSentStep ==
  /\ current_script.active
  /\ current_step < Len(current_script.steps)
  /\ current_script.steps[current_step + 1].name = ran[Len(ran)]

\* the user prompts of the script among the steps executed
SentPrompts ==
  {i \in DOMAIN ran :
     \E j \in DOMAIN loaded :
       /\ loaded[j].type = "prompt"
       /\ ~loaded[j].system
       /\ loaded[j].name = ran[i]}

\* C38: when the response to a script's non-system prompt step is
\* complete, the runner has moved on from that step (current_step advanced
\* by one, or the script completed and cleared), and no prompt step of the
\* script is sent twice.
C38_ResponseAdvancesScript ==
  /\ ScriptResponseComplete => ~AtSentStep
  /\ \A i, j \in SentPrompts : ran[i] = ran[j] => i = j

====
